---- MODULE Spec2Model ----
(***************************************************************************)
(* A model of the lot-number extraction core of the certificate printing   *)
(* workflow: JSONExtractLotAgent.parse_lot / extract_lot_from_text /       *)
(* process_json, ExtractLotAgent.extract_lot_numbers / determine_lot_type  *)
(* / process_certificate / run, the hand-off of extraction results to      *)
(* ERPAgent and AnnotatePrintAgent, ERPAgent's sheet cache and key match,  *)
(* AnnotatePrintAgent.print_with_retry / process_certificate /             *)
(* process_all, and OutlookAgent.monitor_inbox with its tracking table.    *)
(*                                                                         *)
(* A Python str is modelled as a sequence of characters; a character is a  *)
(* one-character TLA+ string, except for the control and the non-ASCII     *)
(* characters, which are named by their code point ("U+00B2" is the        *)
(* superscript two).  The character classes (digits, whitespace, word      *)
(* characters, case) are those of Python 3.11, Unicode 14.                 *)
(***************************************************************************)
EXTENDS Integers, Sequences, FiniteSets, TLC

VARIABLES
    raw,        \* parse machine: the argument handed to parse_lot
    lot,        \* parse machine: what parse_lot returned (NotYet before the call)
    again,      \* parse machine: what parse_lot returned for the base_lot of lot
    candidate,  \* filter machine: the candidate handed to _is_false_positive
    verdict,    \* filter machine: what _is_false_positive returned
    lookups,    \* the lot numbers search_lot was called with, in call order
    pages,      \* document pipeline: the number of page images of the document
    text,       \* document pipeline: the OCR text of the document's page
    stage,      \* document pipeline: how far the document has come
    ext,        \* what ExtractLotAgent.process_certificate returned for the document
    jext,       \* what JSONExtractLotAgent.process_json returned for the document
    results,    \* the list the extraction agent's run() returned
    erp,        \* the list ERPAgent.run() returned
    ann,        \* what AnnotatePrintAgent did with the document
    erpAgent,   \* sheet machine: the workbook file and an ERPAgent's excel_cache
    printJob,   \* print machine: a call of print_with_retry, step by step
    annotator,  \* batch machine: AnnotatePrintAgent.process_all over a list
    mailbox     \* mail machine: the Outlook inbox, the tracking table, the folders

\* The variables of the machines that stand outside the document pipeline.
agentVars == <<erpAgent, printJob, annotator, mailbox>>

\* The variables of the parse, filter and lookup machines and of the pipeline.
pipelineVars ==
    <<raw, lot, again, candidate, verdict, lookups, pages, text, stage, ext, jext, results,
      erp, ann>>

vars == <<pipelineVars, agentVars>>

(***************************************************************************)
(* Bounds of the model.                                                    *)
(***************************************************************************)
MaxFrags == 3       \* a parse_lot argument is made of at most MaxFrags fragments
MaxTextFrags == 2   \* an OCR text is made of at most MaxTextFrags fragments
MaxLots == 2        \* an extraction result handed to ERPAgent has at most MaxLots lots
MaxLookups == 2     \* search_lot is called at most MaxLookups times on one ERPAgent
MaxRetries == 4     \* the configured retry_attempts is at most MaxRetries
MaxCerts == 2       \* process_all is given at most MaxCerts ERP results
MaxMails == 2       \* the Inbox holds MaxMails emails
MaxRuns == 3        \* monitor_inbox runs at most MaxRuns times on one agent
MaxFilterFrags == 2 \* a text handed to _is_false_positive: at most MaxFilterFrags fragments

(***************************************************************************)
(* Characters and strings.                                                 *)
(***************************************************************************)
SUP2 == "U+00B2"        \* the superscript two: a digit for str.isdigit(), not for int()
FWCOLON == "U+FF1A"     \* the full-width colon of the patterns' [:U+FF1A] class
BSL == "\\"             \* the backslash character

\* chr(n), as a character is written here: a printable ASCII character is
\* itself, tab, line feed, form feed and carriage return are "\t", "\n", "\f"
\* and "\r", and every other character is U+ and its code point in four to
\* six hexadecimal digits (so is the grave accent, U+0060, which a string
\* of this language cannot hold).
Chr(n) ==
    LET Ascii == " !\"#$%&'()*+,-./0123456789:;<=>?@ABCDEFGHIJKLMNOPQRSTUVWXYZ[\\]^_ abcdefghijklmnopqrstuvwxyz{|}~"
        Digit(v) == SubSeq("0123456789ABCDEF", v + 1, v + 1)
        h(k) == Digit((n \div (16 ^ k)) % 16)
    IN IF n \in 32..126 \ {96} THEN SubSeq(Ascii, n - 31, n - 31)
       ELSE IF n = 9 THEN "\t"
       ELSE IF n = 10 THEN "\n"
       ELSE IF n = 12 THEN "\f"
       ELSE IF n = 13 THEN "\r"
       ELSE "U+" \o (IF n > 1048575 THEN h(5) ELSE "") \o (IF n > 65535 THEN h(4) ELSE "")
                 \o h(3) \o h(2) \o h(1) \o h(0)

\* The rows of a table of code points.  The table is a string; a row is n
\* code points, each written in five hexadecimal digits and followed by one
\* more character (a hyphen, a space, ...).
Rows(t, n) ==
    LET Digit(i) == (CHOOSE v \in 1..16 : SubSeq("0123456789ABCDEF", v, v) = SubSeq(t, i, i)) - 1
        Field(i) == 65536 * Digit(i) + 4096 * Digit(i + 1) + 256 * Digit(i + 2)
                        + 16 * Digit(i + 3) + Digit(i + 4)
    IN {[f \in 1..n |-> Field(6 * (n * k + f - 1) + 1)] : k \in 0..((Len(t) + 1) \div (6 * n) - 1)}

\* The characters of a set of code point ranges <<first, last>>.
CodePoints(rs) == UNION {{Chr(n) : n \in r[1]..r[2]} : r \in rs}

\* The decimal digits of Python 3.11 (Unicode 14): what \d of re matches and
\* what int() and float() read as digits.  Every range starts at a digit zero.
DecRanges ==
    Rows("00030-00039 00660-00669 006F0-006F9 007C0-007C9 00966-0096F 009E6-009EF " \o
         "00A66-00A6F 00AE6-00AEF 00B66-00B6F 00BE6-00BEF 00C66-00C6F 00CE6-00CEF " \o
         "00D66-00D6F 00DE6-00DEF 00E50-00E59 00ED0-00ED9 00F20-00F29 01040-01049 " \o
         "01090-01099 017E0-017E9 01810-01819 01946-0194F 019D0-019D9 01A80-01A89 " \o
         "01A90-01A99 01B50-01B59 01BB0-01BB9 01C40-01C49 01C50-01C59 0A620-0A629 " \o
         "0A8D0-0A8D9 0A900-0A909 0A9D0-0A9D9 0A9F0-0A9F9 0AA50-0AA59 0ABF0-0ABF9 " \o
         "0FF10-0FF19 104A0-104A9 10D30-10D39 11066-1106F 110F0-110F9 11136-1113F " \o
         "111D0-111D9 112F0-112F9 11450-11459 114D0-114D9 11650-11659 116C0-116C9 " \o
         "11730-11739 118E0-118E9 11950-11959 11C50-11C59 11D50-11D59 11DA0-11DA9 " \o
         "16A60-16A69 16AC0-16AC9 16B50-16B59 1D7CE-1D7FF 1E140-1E149 1E2F0-1E2F9 " \o
         "1E950-1E959 1FBF0-1FBF9", 2)
DecDigits == CodePoints(DecRanges)

\* Python's None, where a string is expected: a sequence that is no string.
None == <<"<None>">>

Range(s) == {s[i] : i \in 1..Len(s)}

\* str.strip(): whitespace removed from both ends.
WhiteSpace ==
    CodePoints(Rows("00009-0000D 0001C-00020 00085-00085 000A0-000A0 01680-01680 " \o
                    "02000-0200A 02028-02029 0202F-0202F 0205F-0205F 03000-03000", 2))

RECURSIVE LStrip(_)
LStrip(s) == IF s # <<>> /\ Head(s) \in WhiteSpace THEN LStrip(Tail(s)) ELSE s

RECURSIVE RStrip(_)
RStrip(s) ==
    IF s # <<>> /\ s[Len(s)] \in WhiteSpace THEN RStrip(SubSeq(s, 1, Len(s) - 1)) ELSE s

Strip(s) == RStrip(LStrip(s))

\* str.replace(" ", ""): every space character removed (tabs and newlines stay).
NotASpace(c) == c # " "

RemoveSpaces(s) == SelectSeq(s, NotASpace)

\* str.split(sep) for a one-character separator: the parts between the
\* separators, empty parts included ("123-" gives ["123", ""]).
RECURSIVE Split(_, _)
Split(s, sep) ==
    IF \A i \in 1..Len(s) : s[i] # sep
    THEN <<s>>
    ELSE LET k == CHOOSE i \in 1..Len(s) : s[i] = sep /\ \A j \in 1..(i - 1) : s[j] # sep
         IN <<SubSeq(s, 1, k - 1)>> \o Split(SubSeq(s, k + 1, Len(s)), sep)

\* str.isdigit(): non-empty and every character a digit.  The digits of
\* isdigit() are the decimal digits and the superscript, subscript, circled
\* and other digits that int() does not read.
DigitChars ==
    CodePoints(Rows("00030-00039 000B2-000B3 000B9-000B9 00660-00669 006F0-006F9 007C0-007C9 " \o
                    "00966-0096F 009E6-009EF 00A66-00A6F 00AE6-00AEF 00B66-00B6F 00BE6-00BEF " \o
                    "00C66-00C6F 00CE6-00CEF 00D66-00D6F 00DE6-00DEF 00E50-00E59 00ED0-00ED9 " \o
                    "00F20-00F29 01040-01049 01090-01099 01369-01371 017E0-017E9 01810-01819 " \o
                    "01946-0194F 019D0-019DA 01A80-01A89 01A90-01A99 01B50-01B59 01BB0-01BB9 " \o
                    "01C40-01C49 01C50-01C59 02070-02070 02074-02079 02080-02089 02460-02468 " \o
                    "02474-0247C 02488-02490 024EA-024EA 024F5-024FD 024FF-024FF 02776-0277E " \o
                    "02780-02788 0278A-02792 0A620-0A629 0A8D0-0A8D9 0A900-0A909 0A9D0-0A9D9 " \o
                    "0A9F0-0A9F9 0AA50-0AA59 0ABF0-0ABF9 0FF10-0FF19 104A0-104A9 10A40-10A43 " \o
                    "10D30-10D39 10E60-10E68 11052-1105A 11066-1106F 110F0-110F9 11136-1113F " \o
                    "111D0-111D9 112F0-112F9 11450-11459 114D0-114D9 11650-11659 116C0-116C9 " \o
                    "11730-11739 118E0-118E9 11950-11959 11C50-11C59 11D50-11D59 11DA0-11DA9 " \o
                    "16A60-16A69 16AC0-16AC9 16B50-16B59 1D7CE-1D7FF 1E140-1E149 1E2F0-1E2F9 " \o
                    "1E950-1E959 1F100-1F10A 1FBF0-1FBF9", 2))
IsDigit(s) == s # <<>> /\ \A i \in 1..Len(s) : s[i] \in DigitChars

\* The digits of a numeric literal: decimal digits, with single underscores
\* allowed between two digits.
DigitPart(u) ==
    /\ u # <<>>
    /\ \A i \in 1..Len(u) : u[i] \in DecDigits \cup {"_"}
    /\ u[1] # "_"
    /\ u[Len(u)] # "_"
    /\ \A i \in 1..(Len(u) - 1) : ~(u[i] = "_" /\ u[i + 1] = "_")

\* s without the sign it starts with, if any.
Unsigned(s) == IF s # <<>> /\ s[1] \in {"+", "-"} THEN Tail(s) ELSE s

\* s without the whitespace int() and float() allow around a number: the
\* whitespace of str.strip() but for the separators U+001C to U+001F.
NumberIn(s) ==
    LET Between(inked) ==
            IF inked = {} THEN <<>>
            ELSE SubSeq(s, CHOOSE i \in inked : \A j \in inked : i <= j,
                           CHOOSE i \in inked : \A j \in inked : i >= j)
    IN Between({i \in 1..Len(s) : s[i] \notin WhiteSpace \ CodePoints({<<28, 31>>})})

\* int(s) succeeds iff s, with the whitespace around it removed, is an
\* optional sign and the digits of a literal; otherwise it raises ValueError.
IntOk(s) == DigitPart(Unsigned(NumberIn(s)))

\* The value of a decimal digit: its place in its range of ten.
DigitVal ==
    [c \in DecDigits |->
        CHOOSE d \in 0..9 :
            \E r \in DecRanges : \E k \in 0..((r[2] - r[1]) \div 10) : Chr(r[1] + 10 * k + d) = c]

\* int(s) where it succeeds.
RECURSIVE PyInt(_)
PyInt(s) ==
    LET t == NumberIn(s)
    IN IF t = <<>> THEN 0
       ELSE IF t[1] = "-" THEN 0 - PyInt(Tail(t))
       ELSE IF t[1] = "+" THEN PyInt(Tail(t))
       ELSE IF t[Len(t)] = "_" THEN PyInt(SubSeq(t, 1, Len(t) - 1))
       ELSE 10 * PyInt(SubSeq(t, 1, Len(t) - 1)) + DigitVal[t[Len(t)]]

DigitChar(d) ==
    CASE d = 0 -> "0" [] d = 1 -> "1" [] d = 2 -> "2" [] d = 3 -> "3" [] d = 4 -> "4"
      [] d = 5 -> "5" [] d = 6 -> "6" [] d = 7 -> "7" [] d = 8 -> "8" [] d = 9 -> "9"

\* str(n) of a natural number, and of any integer (the f-string conversion).
RECURSIVE NatStr(_)
NatStr(n) == IF n < 10 THEN <<DigitChar(n)>> ELSE NatStr(n \div 10) \o <<DigitChar(n % 10)>>

IntStr(n) == IF n < 0 THEN <<"-">> \o NatStr(0 - n) ELSE NatStr(n)

(***************************************************************************)
(* JSONExtractLotAgent.parse_lot.                                          *)
(***************************************************************************)
\* all(p.isdigit() for p in raw.split("-") if p)
HyphenPartsNumeric(r) ==
    LET parts == Split(r, "-")
    IN \A i \in 1..Len(parts) : parts[i] # <<>> => IsDigit(parts[i])

\* The structure returned for the hyphen-separated parts.
ExplicitLot(parts) ==
    [type |-> "explicit_multi", base_lot |-> None, count |-> Len(parts),
     expanded_lots |-> parts, annotation_hint |-> None]

\* A seeded fault: the repeat count is looked up as a second lot.
ImplicitLotBothParts(base, cnt) ==
    IF IntOk(cnt)
    THEN [type |-> "implicit_multi", base_lot |-> base, count |-> PyInt(cnt),
          expanded_lots |-> <<base, cnt>>,
          annotation_hint |-> <<"+">> \o IntStr(PyInt(cnt) - 1)]
    ELSE [type |-> "ValueError", base_lot |-> None, count |-> 0,
          expanded_lots |-> <<>>, annotation_hint |-> None]

\* The structure returned for base/cnt; int(cnt) raises ValueError on a
\* string that isdigit() accepts and int() does not.
ImplicitLot(base, cnt) ==
    IF IntOk(cnt)
    THEN [type |-> "implicit_multi", base_lot |-> base, count |-> PyInt(cnt),
          expanded_lots |-> <<base>>,
          annotation_hint |-> <<"+">> \o IntStr(PyInt(cnt) - 1)]
    ELSE [type |-> "ValueError", base_lot |-> None, count |-> 0,
          expanded_lots |-> <<>>, annotation_hint |-> None]

SingleLot(r) ==
    [type |-> "single", base_lot |-> r, count |-> 1,
     expanded_lots |-> <<r>>, annotation_hint |-> None]

parse_lot(raw0) ==
    LET r == RemoveSpaces(Strip(raw0))
        hparts == Split(r, "-")
        sparts == Split(r, "/")
    IN IF "-" \in Range(r) /\ HyphenPartsNumeric(r)
       THEN ExplicitLot(hparts)
       ELSE IF "/" \in Range(r) /\ Len(sparts) = 2 /\ IsDigit(sparts[1]) /\ IsDigit(sparts[2])
       THEN ImplicitLot(sparts[1], sparts[2])
       ELSE SingleLot(r)

(***************************************************************************)
(* Regular expressions, as Python's re matches them (backtracking, greedy  *)
(* quantifiers, leftmost match).  A pattern is a sequence of elements:     *)
(*   [k |-> "rep", pre, cs, neg, lo, hi, g]  the literal string pre        *)
(*        (pre[i] being the characters its i-th character matches: both    *)
(*        cases under re.IGNORECASE) followed by between lo and hi         *)
(*        characters of the set cs (of its complement when neg; a negative *)
(*        hi: no upper limit), all of it captured in group g (0: in no     *)
(*        group);                                                          *)
(*   [k |-> "word", neg, lo, hi]  \w{lo,hi}, or \W{lo,hi} when neg;         *)
(*   [k |-> "wb"]   the zero-width word boundary \b;                       *)
(*   [k |-> "at", of]  the zero-width \B, ^, $, \A or \Z (of is B, ^, $, A  *)
(*        or Z);                                                           *)
(*   [k |-> "alt", alts]  the alternatives of (?:a|b), in order of         *)
(*        preference; an optional group ends with the empty alternative.   *)
(***************************************************************************)
LowerCase == <<"a", "b", "c", "d", "e", "f", "g", "h", "i", "j", "k", "l", "m",
               "n", "o", "p", "q", "r", "s", "t", "u", "v", "w", "x", "y", "z">>
UpperCase == <<"A", "B", "C", "D", "E", "F", "G", "H", "I", "J", "K", "L", "M",
               "N", "O", "P", "Q", "R", "S", "T", "U", "V", "W", "X", "Y", "Z">>

\* The case tables of the re module.  lower: the pairs <<c, lowercase of c>>
\* of the characters that are not their own lowercase; a row is the first
\* and the last character of a run, the step from one to the next, and the
\* lowercase of the first.  extra: the sets of lowercase characters that
\* re.IGNORECASE treats as one another (the cases str.lower() does not
\* join); a row of two characters repeats the second.
CaseTable ==
    [lower |->
        UNION {{<<Chr(r[1] + r[3] * k), Chr(r[4] + r[3] * k)>> :
                    k \in 0..((r[2] - r[1]) \div r[3])} : r \in
            Rows("00041-0005A/00001>00061 000C0-000D6/00001>000E0 000D8-000DE/00001>000F8 " \o
                 "00100-0012E/00002>00101 00130-00130/00001>00069 00132-00136/00002>00133 " \o
                 "00139-00147/00002>0013A 0014A-00176/00002>0014B 00178-00178/00001>000FF " \o
                 "00179-0017D/00002>0017A 00181-00181/00001>00253 00182-00184/00002>00183 " \o
                 "00186-00186/00001>00254 00187-00187/00001>00188 00189-0018A/00001>00256 " \o
                 "0018B-0018B/00001>0018C 0018E-0018E/00001>001DD 0018F-0018F/00001>00259 " \o
                 "00190-00190/00001>0025B 00191-00191/00001>00192 00193-00193/00001>00260 " \o
                 "00194-00194/00001>00263 00196-00196/00001>00269 00197-00197/00001>00268 " \o
                 "00198-00198/00001>00199 0019C-0019C/00001>0026F 0019D-0019D/00001>00272 " \o
                 "0019F-0019F/00001>00275 001A0-001A4/00002>001A1 001A6-001A6/00001>00280 " \o
                 "001A7-001A7/00001>001A8 001A9-001A9/00001>00283 001AC-001AC/00001>001AD " \o
                 "001AE-001AE/00001>00288 001AF-001AF/00001>001B0 001B1-001B2/00001>0028A " \o
                 "001B3-001B5/00002>001B4 001B7-001B7/00001>00292 001B8-001B8/00001>001B9 " \o
                 "001BC-001BC/00001>001BD 001C4-001C4/00001>001C6 001C5-001C5/00001>001C6 " \o
                 "001C7-001C7/00001>001C9 001C8-001C8/00001>001C9 001CA-001CA/00001>001CC " \o
                 "001CB-001DB/00002>001CC 001DE-001EE/00002>001DF 001F1-001F1/00001>001F3 " \o
                 "001F2-001F4/00002>001F3 001F6-001F6/00001>00195 001F7-001F7/00001>001BF " \o
                 "001F8-0021E/00002>001F9 00220-00220/00001>0019E 00222-00232/00002>00223 " \o
                 "0023A-0023A/00001>02C65 0023B-0023B/00001>0023C 0023D-0023D/00001>0019A " \o
                 "0023E-0023E/00001>02C66 00241-00241/00001>00242 00243-00243/00001>00180 " \o
                 "00244-00244/00001>00289 00245-00245/00001>0028C 00246-0024E/00002>00247 " \o
                 "00370-00372/00002>00371 00376-00376/00001>00377 0037F-0037F/00001>003F3 " \o
                 "00386-00386/00001>003AC 00388-0038A/00001>003AD 0038C-0038C/00001>003CC " \o
                 "0038E-0038F/00001>003CD 00391-003A1/00001>003B1 003A3-003AB/00001>003C3 " \o
                 "003CF-003CF/00001>003D7 003D8-003EE/00002>003D9 003F4-003F4/00001>003B8 " \o
                 "003F7-003F7/00001>003F8 003F9-003F9/00001>003F2 003FA-003FA/00001>003FB " \o
                 "003FD-003FF/00001>0037B 00400-0040F/00001>00450 00410-0042F/00001>00430 " \o
                 "00460-00480/00002>00461 0048A-004BE/00002>0048B 004C0-004C0/00001>004CF " \o
                 "004C1-004CD/00002>004C2 004D0-0052E/00002>004D1 00531-00556/00001>00561 " \o
                 "010A0-010C5/00001>02D00 010C7-010C7/00001>02D27 010CD-010CD/00001>02D2D " \o
                 "013A0-013EF/00001>0AB70 013F0-013F5/00001>013F8 01C90-01CBA/00001>010D0 " \o
                 "01CBD-01CBF/00001>010FD 01E00-01E94/00002>01E01 01E9E-01E9E/00001>000DF " \o
                 "01EA0-01EFE/00002>01EA1 01F08-01F0F/00001>01F00 01F18-01F1D/00001>01F10 " \o
                 "01F28-01F2F/00001>01F20 01F38-01F3F/00001>01F30 01F48-01F4D/00001>01F40 " \o
                 "01F59-01F5F/00002>01F51 01F68-01F6F/00001>01F60 01F88-01F8F/00001>01F80 " \o
                 "01F98-01F9F/00001>01F90 01FA8-01FAF/00001>01FA0 01FB8-01FB9/00001>01FB0 " \o
                 "01FBA-01FBB/00001>01F70 01FBC-01FBC/00001>01FB3 01FC8-01FCB/00001>01F72 " \o
                 "01FCC-01FCC/00001>01FC3 01FD8-01FD9/00001>01FD0 01FDA-01FDB/00001>01F76 " \o
                 "01FE8-01FE9/00001>01FE0 01FEA-01FEB/00001>01F7A 01FEC-01FEC/00001>01FE5 " \o
                 "01FF8-01FF9/00001>01F78 01FFA-01FFB/00001>01F7C 01FFC-01FFC/00001>01FF3 " \o
                 "02126-02126/00001>003C9 0212A-0212A/00001>0006B 0212B-0212B/00001>000E5 " \o
                 "02132-02132/00001>0214E 02160-0216F/00001>02170 02183-02183/00001>02184 " \o
                 "024B6-024CF/00001>024D0 02C00-02C2F/00001>02C30 02C60-02C60/00001>02C61 " \o
                 "02C62-02C62/00001>0026B 02C63-02C63/00001>01D7D 02C64-02C64/00001>0027D " \o
                 "02C67-02C6B/00002>02C68 02C6D-02C6D/00001>00251 02C6E-02C6E/00001>00271 " \o
                 "02C6F-02C6F/00001>00250 02C70-02C70/00001>00252 02C72-02C72/00001>02C73 " \o
                 "02C75-02C75/00001>02C76 02C7E-02C7F/00001>0023F 02C80-02CE2/00002>02C81 " \o
                 "02CEB-02CED/00002>02CEC 02CF2-02CF2/00001>02CF3 0A640-0A66C/00002>0A641 " \o
                 "0A680-0A69A/00002>0A681 0A722-0A72E/00002>0A723 0A732-0A76E/00002>0A733 " \o
                 "0A779-0A77B/00002>0A77A 0A77D-0A77D/00001>01D79 0A77E-0A786/00002>0A77F " \o
                 "0A78B-0A78B/00001>0A78C 0A78D-0A78D/00001>00265 0A790-0A792/00002>0A791 " \o
                 "0A796-0A7A8/00002>0A797 0A7AA-0A7AA/00001>00266 0A7AB-0A7AB/00001>0025C " \o
                 "0A7AC-0A7AC/00001>00261 0A7AD-0A7AD/00001>0026C 0A7AE-0A7AE/00001>0026A " \o
                 "0A7B0-0A7B0/00001>0029E 0A7B1-0A7B1/00001>00287 0A7B2-0A7B2/00001>0029D " \o
                 "0A7B3-0A7B3/00001>0AB53 0A7B4-0A7C2/00002>0A7B5 0A7C4-0A7C4/00001>0A794 " \o
                 "0A7C5-0A7C5/00001>00282 0A7C6-0A7C6/00001>01D8E 0A7C7-0A7C9/00002>0A7C8 " \o
                 "0A7D0-0A7D0/00001>0A7D1 0A7D6-0A7D8/00002>0A7D7 0A7F5-0A7F5/00001>0A7F6 " \o
                 "0FF21-0FF3A/00001>0FF41 10400-10427/00001>10428 104B0-104D3/00001>104D8 " \o
                 "10570-1057A/00001>10597 1057C-1058A/00001>105A3 1058C-10592/00001>105B3 " \o
                 "10594-10595/00001>105BB 10C80-10CB2/00001>10CC0 118A0-118BF/00001>118C0 " \o
                 "16E40-16E5F/00001>16E60 1E900-1E921/00001>1E922", 4)},
     extra |->
        {{Chr(g[i]) : i \in 1..3} : g \in
            Rows("00069=00131=00131 00073=0017F=0017F 000B5=003BC=003BC 00345=003B9=01FBE " \o
                 "00390=01FD3=01FD3 003B0=01FE3=01FE3 003B2=003D0=003D0 003B5=003F5=003F5 " \o
                 "003B8=003D1=003D1 003BA=003F0=003F0 003C0=003D6=003D6 003C1=003F1=003F1 " \o
                 "003C2=003C3=003C3 003C6=003D5=003D5 00432=01C80=01C80 00434=01C81=01C81 " \o
                 "0043E=01C82=01C82 00441=01C83=01C83 00442=01C84=01C85 0044A=01C86=01C86 " \o
                 "00463=01C87=01C87 01C88=0A64B=0A64B 01E61=01E9B=01E9B 0FB05=0FB06=0FB06", 3)}]

\* The characters re.IGNORECASE lets a literal character match: those whose
\* lowercase is the lowercase of c or one that re treats as the same.  The
\* table holds the characters that match more than themselves.
CaseSets ==
    LET Sets(table) ==
            LET cased == {p[1] : p \in table.lower} \cup {p[2] : p \in table.lower}
                             \cup UNION table.extra
            IN [cased |-> cased,
                of |-> [c \in cased |->
                           LET lowered == {p[2] : p \in {q \in table.lower : q[1] = c}}
                               low == IF lowered = {} THEN {c} ELSE lowered
                               same == low \cup UNION {g \in table.extra : g \cap low # {}}
                           IN same \cup {p[1] : p \in {q \in table.lower : q[2] \in same}}]]
    IN Sets(CaseTable)
CaseSet(c) ==
    LET In(sets) == IF c \in sets.cased THEN sets.of[c] ELSE {c}
    IN In(CaseSets)

\* [A-Z] under re.IGNORECASE.
Letters == UNION {CaseSet(UpperCase[i]) : i \in 1..Len(UpperCase)}

\* \w: underscore and whatever str.isalnum() accepts, one set for each range
\* of code points.
WordChars ==
    {{Chr(n) : n \in r[1]..r[2]} : r \in
        Rows("00030-00039 00041-0005A 0005F-0005F 00061-0007A 000AA-000AA 000B2-000B3 " \o
             "000B5-000B5 000B9-000BA 000BC-000BE 000C0-000D6 000D8-000F6 000F8-002C1 " \o
             "002C6-002D1 002E0-002E4 002EC-002EC 002EE-002EE 00370-00374 00376-00377 " \o
             "0037A-0037D 0037F-0037F 00386-00386 00388-0038A 0038C-0038C 0038E-003A1 " \o
             "003A3-003F5 003F7-00481 0048A-0052F 00531-00556 00559-00559 00560-00588 " \o
             "005D0-005EA 005EF-005F2 00620-0064A 00660-00669 0066E-0066F 00671-006D3 " \o
             "006D5-006D5 006E5-006E6 006EE-006FC 006FF-006FF 00710-00710 00712-0072F " \o
             "0074D-007A5 007B1-007B1 007C0-007EA 007F4-007F5 007FA-007FA 00800-00815 " \o
             "0081A-0081A 00824-00824 00828-00828 00840-00858 00860-0086A 00870-00887 " \o
             "00889-0088E 008A0-008C9 00904-00939 0093D-0093D 00950-00950 00958-00961 " \o
             "00966-0096F 00971-00980 00985-0098C 0098F-00990 00993-009A8 009AA-009B0 " \o
             "009B2-009B2 009B6-009B9 009BD-009BD 009CE-009CE 009DC-009DD 009DF-009E1 " \o
             "009E6-009F1 009F4-009F9 009FC-009FC 00A05-00A0A 00A0F-00A10 00A13-00A28 " \o
             "00A2A-00A30 00A32-00A33 00A35-00A36 00A38-00A39 00A59-00A5C 00A5E-00A5E " \o
             "00A66-00A6F 00A72-00A74 00A85-00A8D 00A8F-00A91 00A93-00AA8 00AAA-00AB0 " \o
             "00AB2-00AB3 00AB5-00AB9 00ABD-00ABD 00AD0-00AD0 00AE0-00AE1 00AE6-00AEF " \o
             "00AF9-00AF9 00B05-00B0C 00B0F-00B10 00B13-00B28 00B2A-00B30 00B32-00B33 " \o
             "00B35-00B39 00B3D-00B3D 00B5C-00B5D 00B5F-00B61 00B66-00B6F 00B71-00B77 " \o
             "00B83-00B83 00B85-00B8A 00B8E-00B90 00B92-00B95 00B99-00B9A 00B9C-00B9C " \o
             "00B9E-00B9F 00BA3-00BA4 00BA8-00BAA 00BAE-00BB9 00BD0-00BD0 00BE6-00BF2 " \o
             "00C05-00C0C 00C0E-00C10 00C12-00C28 00C2A-00C39 00C3D-00C3D 00C58-00C5A " \o
             "00C5D-00C5D 00C60-00C61 00C66-00C6F 00C78-00C7E 00C80-00C80 00C85-00C8C " \o
             "00C8E-00C90 00C92-00CA8 00CAA-00CB3 00CB5-00CB9 00CBD-00CBD 00CDD-00CDE " \o
             "00CE0-00CE1 00CE6-00CEF 00CF1-00CF2 00D04-00D0C 00D0E-00D10 00D12-00D3A " \o
             "00D3D-00D3D 00D4E-00D4E 00D54-00D56 00D58-00D61 00D66-00D78 00D7A-00D7F " \o
             "00D85-00D96 00D9A-00DB1 00DB3-00DBB 00DBD-00DBD 00DC0-00DC6 00DE6-00DEF " \o
             "00E01-00E30 00E32-00E33 00E40-00E46 00E50-00E59 00E81-00E82 00E84-00E84 " \o
             "00E86-00E8A 00E8C-00EA3 00EA5-00EA5 00EA7-00EB0 00EB2-00EB3 00EBD-00EBD " \o
             "00EC0-00EC4 00EC6-00EC6 00ED0-00ED9 00EDC-00EDF 00F00-00F00 00F20-00F33 " \o
             "00F40-00F47 00F49-00F6C 00F88-00F8C 01000-0102A 0103F-01049 01050-01055 " \o
             "0105A-0105D 01061-01061 01065-01066 0106E-01070 01075-01081 0108E-0108E " \o
             "01090-01099 010A0-010C5 010C7-010C7 010CD-010CD 010D0-010FA 010FC-01248 " \o
             "0124A-0124D 01250-01256 01258-01258 0125A-0125D 01260-01288 0128A-0128D " \o
             "01290-012B0 012B2-012B5 012B8-012BE 012C0-012C0 012C2-012C5 012C8-012D6 " \o
             "012D8-01310 01312-01315 01318-0135A 01369-0137C 01380-0138F 013A0-013F5 " \o
             "013F8-013FD 01401-0166C 0166F-0167F 01681-0169A 016A0-016EA 016EE-016F8 " \o
             "01700-01711 0171F-01731 01740-01751 01760-0176C 0176E-01770 01780-017B3 " \o
             "017D7-017D7 017DC-017DC 017E0-017E9 017F0-017F9 01810-01819 01820-01878 " \o
             "01880-01884 01887-018A8 018AA-018AA 018B0-018F5 01900-0191E 01946-0196D " \o
             "01970-01974 01980-019AB 019B0-019C9 019D0-019DA 01A00-01A16 01A20-01A54 " \o
             "01A80-01A89 01A90-01A99 01AA7-01AA7 01B05-01B33 01B45-01B4C 01B50-01B59 " \o
             "01B83-01BA0 01BAE-01BE5 01C00-01C23 01C40-01C49 01C4D-01C7D 01C80-01C88 " \o
             "01C90-01CBA 01CBD-01CBF 01CE9-01CEC 01CEE-01CF3 01CF5-01CF6 01CFA-01CFA " \o
             "01D00-01DBF 01E00-01F15 01F18-01F1D 01F20-01F45 01F48-01F4D 01F50-01F57 " \o
             "01F59-01F59 01F5B-01F5B 01F5D-01F5D 01F5F-01F7D 01F80-01FB4 01FB6-01FBC " \o
             "01FBE-01FBE 01FC2-01FC4 01FC6-01FCC 01FD0-01FD3 01FD6-01FDB 01FE0-01FEC " \o
             "01FF2-01FF4 01FF6-01FFC 02070-02071 02074-02079 0207F-02089 02090-0209C " \o
             "02102-02102 02107-02107 0210A-02113 02115-02115 02119-0211D 02124-02124 " \o
             "02126-02126 02128-02128 0212A-0212D 0212F-02139 0213C-0213F 02145-02149 " \o
             "0214E-0214E 02150-02189 02460-0249B 024EA-024FF 02776-02793 02C00-02CE4 " \o
             "02CEB-02CEE 02CF2-02CF3 02CFD-02CFD 02D00-02D25 02D27-02D27 02D2D-02D2D " \o
             "02D30-02D67 02D6F-02D6F 02D80-02D96 02DA0-02DA6 02DA8-02DAE 02DB0-02DB6 " \o
             "02DB8-02DBE 02DC0-02DC6 02DC8-02DCE 02DD0-02DD6 02DD8-02DDE 02E2F-02E2F " \o
             "03005-03007 03021-03029 03031-03035 03038-0303C 03041-03096 0309D-0309F " \o
             "030A1-030FA 030FC-030FF 03105-0312F 03131-0318E 03192-03195 031A0-031BF " \o
             "031F0-031FF 03220-03229 03248-0324F 03251-0325F 03280-03289 032B1-032BF " \o
             "03400-04DBF 04E00-0A48C 0A4D0-0A4FD 0A500-0A60C 0A610-0A62B 0A640-0A66E " \o
             "0A67F-0A69D 0A6A0-0A6EF 0A717-0A71F 0A722-0A788 0A78B-0A7CA 0A7D0-0A7D1 " \o
             "0A7D3-0A7D3 0A7D5-0A7D9 0A7F2-0A801 0A803-0A805 0A807-0A80A 0A80C-0A822 " \o
             "0A830-0A835 0A840-0A873 0A882-0A8B3 0A8D0-0A8D9 0A8F2-0A8F7 0A8FB-0A8FB " \o
             "0A8FD-0A8FE 0A900-0A925 0A930-0A946 0A960-0A97C 0A984-0A9B2 0A9CF-0A9D9 " \o
             "0A9E0-0A9E4 0A9E6-0A9FE 0AA00-0AA28 0AA40-0AA42 0AA44-0AA4B 0AA50-0AA59 " \o
             "0AA60-0AA76 0AA7A-0AA7A 0AA7E-0AAAF 0AAB1-0AAB1 0AAB5-0AAB6 0AAB9-0AABD " \o
             "0AAC0-0AAC0 0AAC2-0AAC2 0AADB-0AADD 0AAE0-0AAEA 0AAF2-0AAF4 0AB01-0AB06 " \o
             "0AB09-0AB0E 0AB11-0AB16 0AB20-0AB26 0AB28-0AB2E 0AB30-0AB5A 0AB5C-0AB69 " \o
             "0AB70-0ABE2 0ABF0-0ABF9 0AC00-0D7A3 0D7B0-0D7C6 0D7CB-0D7FB 0F900-0FA6D " \o
             "0FA70-0FAD9 0FB00-0FB06 0FB13-0FB17 0FB1D-0FB1D 0FB1F-0FB28 0FB2A-0FB36 " \o
             "0FB38-0FB3C 0FB3E-0FB3E 0FB40-0FB41 0FB43-0FB44 0FB46-0FBB1 0FBD3-0FD3D " \o
             "0FD50-0FD8F 0FD92-0FDC7 0FDF0-0FDFB 0FE70-0FE74 0FE76-0FEFC 0FF10-0FF19 " \o
             "0FF21-0FF3A 0FF41-0FF5A 0FF66-0FFBE 0FFC2-0FFC7 0FFCA-0FFCF 0FFD2-0FFD7 " \o
             "0FFDA-0FFDC 10000-1000B 1000D-10026 10028-1003A 1003C-1003D 1003F-1004D " \o
             "10050-1005D 10080-100FA 10107-10133 10140-10178 1018A-1018B 10280-1029C " \o
             "102A0-102D0 102E1-102FB 10300-10323 1032D-1034A 10350-10375 10380-1039D " \o
             "103A0-103C3 103C8-103CF 103D1-103D5 10400-1049D 104A0-104A9 104B0-104D3 " \o
             "104D8-104FB 10500-10527 10530-10563 10570-1057A 1057C-1058A 1058C-10592 " \o
             "10594-10595 10597-105A1 105A3-105B1 105B3-105B9 105BB-105BC 10600-10736 " \o
             "10740-10755 10760-10767 10780-10785 10787-107B0 107B2-107BA 10800-10805 " \o
             "10808-10808 1080A-10835 10837-10838 1083C-1083C 1083F-10855 10858-10876 " \o
             "10879-1089E 108A7-108AF 108E0-108F2 108F4-108F5 108FB-1091B 10920-10939 " \o
             "10980-109B7 109BC-109CF 109D2-10A00 10A10-10A13 10A15-10A17 10A19-10A35 " \o
             "10A40-10A48 10A60-10A7E 10A80-10A9F 10AC0-10AC7 10AC9-10AE4 10AEB-10AEF " \o
             "10B00-10B35 10B40-10B55 10B58-10B72 10B78-10B91 10BA9-10BAF 10C00-10C48 " \o
             "10C80-10CB2 10CC0-10CF2 10CFA-10D23 10D30-10D39 10E60-10E7E 10E80-10EA9 " \o
             "10EB0-10EB1 10F00-10F27 10F30-10F45 10F51-10F54 10F70-10F81 10FB0-10FCB " \o
             "10FE0-10FF6 11003-11037 11052-1106F 11071-11072 11075-11075 11083-110AF " \o
             "110D0-110E8 110F0-110F9 11103-11126 11136-1113F 11144-11144 11147-11147 " \o
             "11150-11172 11176-11176 11183-111B2 111C1-111C4 111D0-111DA 111DC-111DC " \o
             "111E1-111F4 11200-11211 11213-1122B 11280-11286 11288-11288 1128A-1128D " \o
             "1128F-1129D 1129F-112A8 112B0-112DE 112F0-112F9 11305-1130C 1130F-11310 " \o
             "11313-11328 1132A-11330 11332-11333 11335-11339 1133D-1133D 11350-11350 " \o
             "1135D-11361 11400-11434 11447-1144A 11450-11459 1145F-11461 11480-114AF " \o
             "114C4-114C5 114C7-114C7 114D0-114D9 11580-115AE 115D8-115DB 11600-1162F " \o
             "11644-11644 11650-11659 11680-116AA 116B8-116B8 116C0-116C9 11700-1171A " \o
             "11730-1173B 11740-11746 11800-1182B 118A0-118F2 118FF-11906 11909-11909 " \o
             "1190C-11913 11915-11916 11918-1192F 1193F-1193F 11941-11941 11950-11959 " \o
             "119A0-119A7 119AA-119D0 119E1-119E1 119E3-119E3 11A00-11A00 11A0B-11A32 " \o
             "11A3A-11A3A 11A50-11A50 11A5C-11A89 11A9D-11A9D 11AB0-11AF8 11C00-11C08 " \o
             "11C0A-11C2E 11C40-11C40 11C50-11C6C 11C72-11C8F 11D00-11D06 11D08-11D09 " \o
             "11D0B-11D30 11D46-11D46 11D50-11D59 11D60-11D65 11D67-11D68 11D6A-11D89 " \o
             "11D98-11D98 11DA0-11DA9 11EE0-11EF2 11FB0-11FB0 11FC0-11FD4 12000-12399 " \o
             "12400-1246E 12480-12543 12F90-12FF0 13000-1342E 14400-14646 16800-16A38 " \o
             "16A40-16A5E 16A60-16A69 16A70-16ABE 16AC0-16AC9 16AD0-16AED 16B00-16B2F " \o
             "16B40-16B43 16B50-16B59 16B5B-16B61 16B63-16B77 16B7D-16B8F 16E40-16E96 " \o
             "16F00-16F4A 16F50-16F50 16F93-16F9F 16FE0-16FE1 16FE3-16FE3 17000-187F7 " \o
             "18800-18CD5 18D00-18D08 1AFF0-1AFF3 1AFF5-1AFFB 1AFFD-1AFFE 1B000-1B122 " \o
             "1B150-1B152 1B164-1B167 1B170-1B2FB 1BC00-1BC6A 1BC70-1BC7C 1BC80-1BC88 " \o
             "1BC90-1BC99 1D2E0-1D2F3 1D360-1D378 1D400-1D454 1D456-1D49C 1D49E-1D49F " \o
             "1D4A2-1D4A2 1D4A5-1D4A6 1D4A9-1D4AC 1D4AE-1D4B9 1D4BB-1D4BB 1D4BD-1D4C3 " \o
             "1D4C5-1D505 1D507-1D50A 1D50D-1D514 1D516-1D51C 1D51E-1D539 1D53B-1D53E " \o
             "1D540-1D544 1D546-1D546 1D54A-1D550 1D552-1D6A5 1D6A8-1D6C0 1D6C2-1D6DA " \o
             "1D6DC-1D6FA 1D6FC-1D714 1D716-1D734 1D736-1D74E 1D750-1D76E 1D770-1D788 " \o
             "1D78A-1D7A8 1D7AA-1D7C2 1D7C4-1D7CB 1D7CE-1D7FF 1DF00-1DF1E 1E100-1E12C " \o
             "1E137-1E13D 1E140-1E149 1E14E-1E14E 1E290-1E2AD 1E2C0-1E2EB 1E2F0-1E2F9 " \o
             "1E7E0-1E7E6 1E7E8-1E7EB 1E7ED-1E7EE 1E7F0-1E7FE 1E800-1E8C4 1E8C7-1E8CF " \o
             "1E900-1E943 1E94B-1E94B 1E950-1E959 1EC71-1ECAB 1ECAD-1ECAF 1ECB1-1ECB4 " \o
             "1ED01-1ED2D 1ED2F-1ED3D 1EE00-1EE03 1EE05-1EE1F 1EE21-1EE22 1EE24-1EE24 " \o
             "1EE27-1EE27 1EE29-1EE32 1EE34-1EE37 1EE39-1EE39 1EE3B-1EE3B 1EE42-1EE42 " \o
             "1EE47-1EE47 1EE49-1EE49 1EE4B-1EE4B 1EE4D-1EE4F 1EE51-1EE52 1EE54-1EE54 " \o
             "1EE57-1EE57 1EE59-1EE59 1EE5B-1EE5B 1EE5D-1EE5D 1EE5F-1EE5F 1EE61-1EE62 " \o
             "1EE64-1EE64 1EE67-1EE6A 1EE6C-1EE72 1EE74-1EE77 1EE79-1EE7C 1EE7E-1EE7E " \o
             "1EE80-1EE89 1EE8B-1EE9B 1EEA1-1EEA3 1EEA5-1EEA9 1EEAB-1EEBB 1F100-1F10C " \o
             "1FBF0-1FBF9 20000-2A6DF 2A700-2B738 2B740-2B81D 2B820-2CEA1 2CEB0-2EBE0 " \o
             "2F800-2FA1D 30000-3134A", 2)}
IsWordChar(c) == \E w \in WordChars : c \in w

\* \s of the re module: the characters str.isspace() accepts.
ReSpace == WhiteSpace

Exact(s) == [i \in 1..Len(s) |-> {s[i]}]
AnyCase(s) == [i \in 1..Len(s) |-> CaseSet(s[i])]

\* pre followed by cs{lo,hi}, by cs*, by cs+; pre alone; . {lo,hi}.
Rep(pre, cs, lo, hi, g) ==
    [k |-> "rep", pre |-> pre, cs |-> cs, neg |-> FALSE, lo |-> lo, hi |-> hi, g |-> g]
Star(pre, cs, g) == Rep(pre, cs, 0, -1, g)
Plus(pre, cs, g) == Rep(pre, cs, 1, -1, g)
Chars(cs, lo, hi, g) == Rep(<<>>, cs, lo, hi, g)
Lit(s, g) == <<Rep(Exact(s), {}, 0, 0, g)>>
LitI(s, g) == <<Rep(AnyCase(s), {}, 0, 0, g)>>
NotChars(pre, cs, lo, hi, g) ==
    [k |-> "rep", pre |-> pre, cs |-> cs, neg |-> TRUE, lo |-> lo, hi |-> hi, g |-> g]
WordBoundary == [k |-> "wb"]
Alt(alts) == [k |-> "alt", alts |-> alts]

ElemAccepts(e, c) ==
    IF e.k = "word" THEN IsWordChar(c) # e.neg
    ELSE IF e.neg THEN c \notin e.cs ELSE c \in e.cs

AtWordBoundary(t, pos) ==
    LET before == pos > 1 /\ IsWordChar(t[pos - 1])
        after == pos <= Len(t) /\ IsWordChar(t[pos])
    IN before # after

LitAt(ss, t, pos) ==
    /\ pos + Len(ss) - 1 <= Len(t)
    /\ \A i \in 1..Len(ss) : t[pos + i - 1] \in ss[i]

\* How many characters from pos on the element e can take at most.
Run(e, t, pos) ==
    LET left == Len(t) - pos + 1
        lim == IF e.hi < 0 \/ left < e.hi THEN left ELSE e.hi
        ns == {n \in 0..lim : \A i \in 0..(n - 1) : ElemAccepts(e, t[pos + i])}
    IN CHOOSE n \in ns : \A m \in ns : m <= n

NoMatch == [ok |-> FALSE]

NoCaps == <<<<>>, <<>>>>

Captured(g, s) == [i \in 1..2 |-> IF i = g THEN s ELSE <<>>]

\* The way a followed by the way b: it ends where b ends, and each group
\* holds what it captured in a and then in b.
Joined(a, b) == [end |-> b.end, caps |-> [i \in 1..2 |-> a.caps[i] \o b.caps[i]]]

\* The way a followed by each of the ways bs.
Follow(a, bs) == [k \in 1..Len(bs) |-> Joined(a, bs[k])]

\* The concatenation of the sequences ls[lo], ..., ls[hi].
RECURSIVE FlattenRange(_, _, _)
FlattenRange(ls, lo, hi) ==
    IF hi < lo THEN <<>>
    ELSE IF lo = hi THEN ls[lo]
    ELSE FlattenRange(ls, lo, (lo + hi) \div 2) \o FlattenRange(ls, (lo + hi) \div 2 + 1, hi)

Flatten(ls) == FlattenRange(ls, 1, Len(ls))

\* All the ways the elements can match at pos, in the order backtracking
\* would come to them: a repetition from its longest run down, an
\* alternation from its first alternative on.  The first way is the match.
RECURSIVE Ways(_, _, _)
RECURSIVE ElemWays(_, _, _)
RECURSIVE Chain(_, _, _)
Ways(elems, t, pos) ==
    IF elems = <<>> THEN <<[end |-> pos, caps |-> NoCaps]>>
    ELSE IF Len(elems) = 1 THEN ElemWays(elems[1], t, pos)
    ELSE Chain(Ways(SubSeq(elems, 1, Len(elems) \div 2), t, pos),
               SubSeq(elems, Len(elems) \div 2 + 1, Len(elems)), t)

ElemWays(e, t, pos) ==
    CASE e.k = "wb" ->
            IF AtWordBoundary(t, pos) THEN <<[end |-> pos, caps |-> NoCaps]>> ELSE <<>>
      [] e.k = "at" ->
            \* ^ and \A hold at the start, \Z at the end, $ at the end and before
            \* a line feed that ends the text, \B in a non-empty text where \b fails
            IF CASE e.of \in {"^", "A"} -> pos = 1
                 [] e.of = "Z" -> pos = Len(t) + 1
                 [] e.of = "$" -> pos = Len(t) + 1 \/ (pos = Len(t) /\ t[pos] = "\n")
                 [] e.of = "B" -> t # <<>> /\ ~AtWordBoundary(t, pos)
            THEN <<[end |-> pos, caps |-> NoCaps]>> ELSE <<>>
      [] e.k = "alt" ->
            Flatten([i \in 1..Len(e.alts) |-> Ways(e.alts[i], t, pos)])
      [] e.k \in {"rep", "word"} ->
            IF ~LitAt(e.pre, t, pos) THEN <<>>
            ELSE LET from == pos + Len(e.pre)
                     most == Run(e, t, from)
                 IN IF most < e.lo THEN <<>>
                    ELSE [i \in 1..(most - e.lo + 1) |->
                             [end |-> from + most - i + 1,
                              caps |-> Captured(e.g, SubSeq(t, pos, from + most - i))]]

\* Each way of the left part, followed by each way of the right part from
\* where the left one ended.
Chain(lefts, right, t) ==
    Flatten([j \in 1..Len(lefts) |-> Follow(lefts[j], Ways(right, t, lefts[j].end))])

\* The match of the elements at pos that backtracking finds first.
MatchAt(ways) ==
    IF ways = <<>> THEN NoMatch
    ELSE [ok |-> TRUE, end |-> ways[1].end, caps |-> ways[1].caps]

MatchHere(elems, t, pos) == MatchAt(Ways(elems, t, pos))

\* Of the tries (n: the rank of the try, r: its result) the result of the
\* successful one of least rank.
FirstOk(tries) ==
    LET good == {x \in tries : x.r.ok}
    IN IF good = {} THEN NoMatch ELSE (CHOOSE x \in good : \A y \in good : x.n <= y.n).r

\* re.search: the leftmost match at or after pos.
SearchFrom(elems, t, pos) ==
    FirstOk({[n |-> p, r |-> MatchHere(elems, t, p) @@ [start |-> p]] :
               p \in pos..(Len(t) + 1)})

re_search(elems, t) == SearchFrom(elems, t, 1)

\* re.finditer: the successive non-overlapping matches, left to right.
RECURSIVE FindFrom(_, _, _)
RECURSIVE FindMore(_, _, _)
FindFrom(elems, t, pos) == FindMore(SearchFrom(elems, t, pos), elems, t)
FindMore(r, elems, t) ==
    IF ~r.ok THEN <<>>
    ELSE <<r>> \o FindFrom(elems, t, IF r.end = r.start THEN r.end + 1 ELSE r.end)

re_finditer(elems, t) == FindFrom(elems, t, 1)

(***************************************************************************)
(* ExtractLotAgent.setup_lot_patterns.  The patterns are raw strings in    *)
(* which every backslash is doubled (r'Lot\\s*Number...'), so the regular  *)
(* expression engine reads \\ as a literal backslash and the s, d, b after *)
(* it as literal letters: 'Lot\\s*' is "Lot", a backslash, any number of   *)
(* letters s; '(\\d{5,7})' is a backslash and 5 to 7 letters d.  All       *)
(* patterns are searched with re.IGNORECASE.                               *)
(***************************************************************************)
BackslashS == <<Star(Exact(<<BSL>>), CaseSet("s"), 0)>>                     \* \\s*
BackslashB == LitI(<<BSL, "b">>, 0)                                         \* \\b
BackslashD(lo, hi, g) == <<Rep(Exact(<<BSL>>), CaseSet("d"), lo, hi, g)>>   \* \\d{lo,hi}
OptColon == <<Chars({":", FWCOLON}, 0, 1, 0)>>                             \* [:U+FF1A]?
LotWord == LitI(<<"L", "o", "t">>, 0)
NumberWord == LitI(<<"N", "u", "m", "b", "e", "r">>, 0)
NoWord == <<NotChars(AnyCase(<<"N", "o", BSL>>), {"\n"}, 0, 1, 0)>>        \* No\\.?
OptLabel == <<Alt(<<NumberWord, NoWord, <<>>>>)>>                          \* (?:Number|No\\.?)?
LabelHead == LotWord \o BackslashS \o OptLabel \o BackslashS \o OptColon \o BackslashS
ArabicRaqm == Lit(<<"U+0631", "U+0642", "U+0645">>, 0)
ArabicLot == Lit(<<"U+0627", "U+0644", "U+0644", "U+0648", "U+062A">>, 0)
ArabicBatch == Lit(<<"U+0627", "U+0644", "U+0628", "U+0627", "U+062A", "U+0634">>, 0)

lot_patterns ==
    << \* 1: r'Lot\\s*Number\\s*[:U+FF1A]?\\s*(\\d{5,7})\\b'
       [groups |-> 1,
        elems |-> LotWord \o BackslashS \o NumberWord \o BackslashS \o OptColon
                  \o BackslashS \o BackslashD(5, 7, 1) \o BackslashB],
       \* 2: r'Lot\\s*[:U+FF1A]\\s*(\\d{5,7})\\b'
       [groups |-> 1,
        elems |-> LotWord \o BackslashS \o <<Chars({":", FWCOLON}, 1, 1, 0)>>
                  \o BackslashS \o BackslashD(5, 7, 1) \o BackslashB],
       \* 3: r'Lot\\s*No\\.?\\s*[:U+FF1A]?\\s*(\\d{5,7})\\b'
       [groups |-> 1,
        elems |-> LotWord \o BackslashS \o NoWord \o BackslashS \o OptColon
                  \o BackslashS \o BackslashD(5, 7, 1) \o BackslashB],
       \* 4: r'Lot\\s*#\\s*(\\d{5,7})\\b'
       [groups |-> 1,
        elems |-> LotWord \o BackslashS \o Lit(<<"#">>, 0)
                  \o BackslashS \o BackslashD(5, 7, 1) \o BackslashB],
       \* 5: r'Lot\\s*(?:Number|No\\.?)?\\s*[:U+FF1A]?\\s*(\\d{5,7})\\s*[/\\-]\\s*(\\d{5,7})'
       [groups |-> 2,
        elems |-> LabelHead \o BackslashD(5, 7, 1) \o BackslashS
                  \o <<Chars({"/", BSL, "-"}, 1, 1, 0)>> \o BackslashS \o BackslashD(5, 7, 2)],
       \* 6: r'Lot\\s*(?:Number|No\\.?)?\\s*[:U+FF1A]?\\s*(\\d{5,7})\\s*/\\s*(\\d{1,2})\\b'
       [groups |-> 2,
        elems |-> LabelHead \o BackslashD(5, 7, 1) \o BackslashS
                  \o Lit(<<"/">>, 0) \o BackslashS \o BackslashD(1, 2, 2) \o BackslashB],
       \* 7: the Arabic label, followed by \\s*[:U+FF1A]?\\s*(\\d{5,7})
       [groups |-> 1,
        elems |-> ArabicRaqm \o BackslashS \o <<Alt(<<ArabicLot, ArabicBatch>>)>>
                  \o BackslashS \o OptColon \o BackslashS \o BackslashD(5, 7, 1)],
       \* 8: r'Lot\\s*(?:Number|No\\.?)?\\s*[:U+FF1A]?\\s*([A-Z]{2,3}\\d{3,4})\\b'
       [groups |-> 1,
        elems |-> LabelHead \o <<Chars(Letters, 2, 3, 1)>> \o BackslashD(3, 4, 1)
                  \o BackslashB],
       \* 9: r'\\b(\\d{5,7})\\b'
       [groups |-> 1,
        elems |-> BackslashB \o BackslashD(5, 7, 1) \o BackslashB] >>

(***************************************************************************)
(* ExtractLotAgent._is_false_positive.  The exclusion patterns are built   *)
(* by appending the number to a raw string with doubled backslashes, so    *)
(* the keyword part needs literal backslashes in the text, while the       *)
(* number is appended as it is and read as regular expression syntax: a    *)
(* backslash in it starts an escape (\d is the digit class, \D its         *)
(* complement), a dot is any character, * + ? repeat what stands before    *)
(* them, and | parts the whole pattern, keyword included, in alternatives. *)
(* The numbers the lot patterns capture are letters, a backslash and       *)
(* letters d.  What is read here: plain characters, the dot, ^ and $, the  *)
(* escapes \d \D \s \S \w \W \b \B \A \Z \t \n \r \f \v \a, an escaped    *)
(* character that is no ASCII letter or digit, the greedy * + ? and |.     *)
(* Nothing else is defined: groups, brackets, braces, lazy and possessive  *)
(* repetition, the other escapes, and what re.compile refuses (a           *)
(* repetition of nothing, a backslash at the end).                         *)
(***************************************************************************)
Years == { <<"2", "0", "2", "3">>, <<"2", "0", "2", "4">>,
           <<"2", "0", "2", "5">>, <<"2", "0", "2", "6">> }

\* n[i] is the character of an escape: the backslashes right before it are
\* odd in number.
Escaped(n, i) ==
    LET run == CHOOSE k \in 0..(i - 1) :
                   /\ \A j \in (i - k)..(i - 1) : n[j] = BSL
                   /\ (k = i - 1 \/ n[i - k - 1] # BSL)
    IN run % 2 = 1

\* The element that n[i] starts, with the * + ? that follows it; nothing
\* for the character of an escape and for a * + ? itself.
NumberAsRegexAt(n, i) ==
    LET esc == n[i] = BSL /\ i < Len(n)
        c == IF esc THEN n[i + 1] ELSE n[i]
        q == IF esc THEN i + 2 ELSE i + 1
        repeated == q <= Len(n) /\ n[q] \in {"*", "+", "?"}
        lo == IF repeated /\ n[q] \in {"*", "?"} THEN 0 ELSE 1
        hi == IF repeated /\ n[q] \in {"*", "+"} THEN -1 ELSE 1
        AsciiAlnum == CodePoints({<<48, 57>>, <<65, 90>>, <<97, 122>>})
        \* what ends at n[j] is one character of the text, which * + ? can repeat
        Repeatable(j) ==
            /\ j >= 1
            /\ IF Escaped(n, j) THEN n[j] \notin {"b", "B", "A", "Z"}
               ELSE n[j] \notin {"*", "+", "?", "|", "^", "$"}
    IN IF Escaped(n, i) THEN <<>>
       ELSE CASE n[i] \in {"*", "+", "?"} /\ Repeatable(i - 1)
                    /\ ~(i < Len(n) /\ n[i + 1] \in {"*", "+", "?"}) -> <<>>
              [] esc /\ c = "d" -> <<Chars(DecDigits, lo, hi, 0)>>
              [] esc /\ c = "D" -> <<NotChars(<<>>, DecDigits, lo, hi, 0)>>
              [] esc /\ c = "s" -> <<Chars(ReSpace, lo, hi, 0)>>
              [] esc /\ c = "S" -> <<NotChars(<<>>, ReSpace, lo, hi, 0)>>
              [] esc /\ c \in {"w", "W"} -> <<[Rep(<<>>, {}, lo, hi, 0) EXCEPT !.k = "word", !.neg = (c = "W")]>>
              [] esc /\ c = "b" /\ ~repeated -> <<WordBoundary>>
              [] esc /\ c \in {"B", "A", "Z"} /\ ~repeated -> <<[k |-> "at", of |-> c]>>
              [] esc /\ c = "t" -> <<Chars({"\t"}, lo, hi, 0)>>
              [] esc /\ c = "n" -> <<Chars({"\n"}, lo, hi, 0)>>
              [] esc /\ c = "r" -> <<Chars({"\r"}, lo, hi, 0)>>
              [] esc /\ c = "f" -> <<Chars({"\f"}, lo, hi, 0)>>
              [] esc /\ c = "v" -> <<Chars({Chr(11)}, lo, hi, 0)>>
              [] esc /\ c = "a" -> <<Chars({Chr(7)}, lo, hi, 0)>>
              [] esc /\ c \notin AsciiAlnum -> <<Chars(CaseSet(c), lo, hi, 0)>>
              [] ~esc /\ c = "." -> <<NotChars(<<>>, {"\n"}, lo, hi, 0)>>
              [] ~esc /\ c \in {"^", "$"} /\ ~repeated -> <<[k |-> "at", of |-> c]>>
              [] ~esc /\ c \notin {BSL, ".", "^", "$", "*", "+", "?", "|", "(", ")", "[", "{"} ->
                    <<Chars(CaseSet(c), lo, hi, 0)>>

\* The alternatives of n[i..]: a | begins a new one, any other character
\* adds what it starts to the first.
RECURSIVE NumberAsRegexFrom(_, _)
NumberAsRegexFrom(n, i) ==
    IF i > Len(n) THEN << <<>> >>
    ELSE IF n[i] = "|" /\ ~Escaped(n, i) THEN << <<>> >> \o NumberAsRegexFrom(n, i + 1)
    ELSE [NumberAsRegexFrom(n, i + 1) EXCEPT ![1] = NumberAsRegexAt(n, i) \o @]

\* The number read as a regular expression (searched with re.IGNORECASE):
\* its alternatives, each a sequence of elements.
NumberAsRegex(n) == NumberAsRegexFrom(n, 1)

\* keyword + number: the keyword stands before the first alternative only.
ExcludeBefore(number_re) ==
    LET Appended(keyword, alts) ==
            IF Len(alts) = 1 THEN keyword \o alts[1]
            ELSE <<Alt(<<keyword \o alts[1]>> \o Tail(alts))>>
    IN
    << \* r'Date\\s*[:U+FF1A]?\\s*' + number
       Appended(LitI(<<"D", "a", "t", "e">>, 0) \o BackslashS \o OptColon \o BackslashS,
                number_re),
       \* r'Year\\s*[:U+FF1A]?\\s*' + number
       Appended(LitI(<<"Y", "e", "a", "r">>, 0) \o BackslashS \o OptColon \o BackslashS,
                number_re),
       \* r'Page\\s*' + number
       Appended(LitI(<<"P", "a", "g", "e">>, 0) \o BackslashS, number_re),
       \* r'Certificate\\s*#?' + number
       Appended(LitI(<<"C", "e", "r", "t", "i", "f", "i", "c", "a", "t", "e">>, 0) \o BackslashS
                    \o <<Chars({"#"}, 0, 1, 0)>>, number_re) >>

patterns_to_exclude(number) == ExcludeBefore(NumberAsRegex(number))

is_false_positive(number, t) ==
    \/ number \in Years
    \/ \E i \in 1..4 : re_search(patterns_to_exclude(number)[i], t).ok

(***************************************************************************)
(* ExtractLotAgent.extract_lot_numbers: every pattern in order, every      *)
(* match of a pattern in text order.  The accumulator holds lot_numbers    *)
(* and lot_info, and raised when int(second) raised ValueError (which      *)
(* leaves extract_lot_numbers without a return value).                     *)
(***************************************************************************)
AddLotNumberOnly(acc, num, info) ==
    IF num \in Range(acc.lot_numbers) THEN acc
    ELSE [acc EXCEPT !.lot_numbers = Append(@, num)]

AddLot(acc, num, info) ==
    IF num \in Range(acc.lot_numbers) THEN acc
    ELSE [acc EXCEPT !.lot_numbers = Append(@, num), !.lot_info = Append(@, info)]

MatchStep(acc, m, groups, t) ==
    IF acc.raised THEN acc
    ELSE IF groups = 2
    THEN LET first == m.caps[1]
             second == m.caps[2]
         IN IF Len(second) >= 5
            THEN AddLot(AddLot(acc, first, [num |-> first, type |-> "explicit_multi"]),
                        second, [num |-> second, type |-> "explicit_multi"])
            ELSE IF first \in Range(acc.lot_numbers) THEN acc
            ELSE IF ~IntOk(second) THEN [acc EXCEPT !.raised = TRUE]
            ELSE AddLot(acc, first,
                        [num |-> first, type |-> "implicit", count |-> PyInt(second)])
    ELSE LET lot_num == m.caps[1]
         IN IF lot_num \in Range(acc.lot_numbers) \/ is_false_positive(lot_num, t) THEN acc
            ELSE AddLot(acc, lot_num, [num |-> lot_num, type |-> "single"])

\* The matches in the order the two nested loops visit them: pattern by
\* pattern, each pattern's matches in text order, each with the number of
\* groups of its pattern.
Tagged(ms, groups) == [j \in 1..Len(ms) |-> [caps |-> ms[j].caps, groups |-> groups]]

AllMatches(t) ==
    Flatten([i \in 1..Len(lot_patterns) |->
                Tagged(re_finditer(lot_patterns[i].elems, t), lot_patterns[i].groups)])

RECURSIVE MatchLoop(_, _, _)
MatchLoop(ms, j, t) ==
    IF j = 0 THEN [lot_numbers |-> <<>>, lot_info |-> <<>>, raised |-> FALSE]
    ELSE MatchStep(MatchLoop(ms, j - 1, t), ms[j], ms[j].groups, t)

LoopOver(ms, t) == MatchLoop(ms, Len(ms), t)

extract_lot_numbers(t) == LoopOver(AllMatches(t), t)

(***************************************************************************)
(* ExtractLotAgent.determine_lot_type.                                     *)
(***************************************************************************)
CountType(lot_info, ty) == Cardinality({i \in 1..Len(lot_info) : lot_info[i].type = ty})

determine_lot_type(lot_info) ==
    IF lot_info = <<>> THEN "unknown"
    ELSE IF \E i \in 1..Len(lot_info) : lot_info[i].type = "implicit" THEN "implicit_multi"
    ELSE IF CountType(lot_info, "explicit_multi") >= 2 THEN "explicit_multi"
    ELSE IF Len(lot_info) = 1 THEN "single"
    ELSE "multiple"

(***************************************************************************)
(* ExtractLotAgent.extract_text_from_pdf and process_certificate.  A       *)
(* document is its OCR page text (one page), or has no page image at all   *)
(* (pdf_to_images failed), in which case the text is empty.  The page      *)
(* separator is written '\\n' in a non-raw string: a backslash and the     *)
(* letter n, not a line break.                                             *)
(***************************************************************************)
PageBreak == <<BSL, "n", "-", "-", "-", "P", "A", "G", "E", " ", "B", "R", "E", "A", "K",
               "-", "-", "-", BSL, "n">>

extract_text_from_pdf(doc) == IF doc.pages = 0 THEN <<>> ELSE doc.text \o PageBreak

ResultNone == [outcome |-> "None"]
ResultRaised == [outcome |-> "ValueError"]

\* The result record built from what extract_lot_numbers returned.
CertificateResult(found) ==
    IF found.raised THEN ResultRaised
    ELSE [outcome |-> "result",
          lot_numbers |-> found.lot_numbers,
          lot_info |-> found.lot_info,
          lot_structure |-> determine_lot_type(found.lot_info)]

ProcessText(t) == IF t = <<>> THEN ResultNone ELSE CertificateResult(extract_lot_numbers(t))

process_certificate(doc) == ProcessText(extract_text_from_pdf(doc))

(***************************************************************************)
(* JSONExtractLotAgent.extract_lot_from_text and process_json.             *)
(***************************************************************************)
LotNumberLabel == <<"L", "o", "t", " ", "N", "u", "m", "b", "e", "r", " ", ":", " ">>

json_patterns ==
    << \* 1: r'Lot Number : (\d+)'
       Lit(LotNumberLabel, 0) \o <<Plus(<<>>, DecDigits, 1)>>,
       \* 2: r'lot number : (\d+)' with re.IGNORECASE
       LitI(LotNumberLabel, 0) \o <<Plus(<<>>, DecDigits, 1)>>,
       \* 3: r'Lot\s+Number\s*:\s*(\d+)' with re.IGNORECASE
       << Plus(AnyCase(<<"L", "o", "t">>), ReSpace, 0),
          Star(AnyCase(<<"N", "u", "m", "b", "e", "r">>), ReSpace, 0),
          Star(Exact(<<":">>), ReSpace, 0),
          Plus(<<>>, DecDigits, 1) >>,
       \* 4: r'\b\d{6,7}\b' (findall: the whole match)
       <<WordBoundary, Chars(DecDigits, 6, 7, 1), WordBoundary>> >>

FavouredLot == <<"1", "3", "9", "9", "2", "8">>

\* The lot the four patterns settle on: the first pattern that matches wins;
\* among the bare numbers 139928 is taken when present, else the first one.
ChosenLot(m1, m2, m3, numbers) ==
    IF m1.ok THEN [found |-> TRUE, lot_raw |-> m1.caps[1]]
    ELSE IF m2.ok THEN [found |-> TRUE, lot_raw |-> m2.caps[1]]
    ELSE IF m3.ok THEN [found |-> TRUE, lot_raw |-> m3.caps[1]]
    ELSE IF numbers # <<>>
    THEN IF \E j \in 1..Len(numbers) : numbers[j].caps[1] = FavouredLot
         THEN [found |-> TRUE, lot_raw |-> FavouredLot]
         ELSE [found |-> TRUE, lot_raw |-> numbers[1].caps[1]]
    ELSE [found |-> FALSE]

LotData(chosen) ==
    IF chosen.found
    THEN [found |-> TRUE, lot_raw |-> chosen.lot_raw, lot_structured |-> parse_lot(chosen.lot_raw)]
    ELSE [found |-> FALSE]

extract_lot_from_text(t) ==
    LotData(ChosenLot(re_search(json_patterns[1], t), re_search(json_patterns[2], t),
                      re_search(json_patterns[3], t), re_finditer(json_patterns[4], t)))

\* The result record built from what extract_lot_from_text returned.
JsonResult(lot_data) ==
    IF ~lot_data.found THEN ResultNone
    ELSE [outcome |-> "result",
          lot_numbers |-> lot_data.lot_structured.expanded_lots,
          lot_info |-> <<[num |-> lot_data.lot_raw, type |-> lot_data.lot_structured.type]>>,
          lot_structure |-> lot_data.lot_structured.type]

\* process_json on a readable OCR file of one page whose ocr_text is t.
process_json(t) == IF t = <<>> THEN ResultNone ELSE JsonResult(extract_lot_from_text(t))

(***************************************************************************)
(* ERPAgent: the reference sheets and the lookup of a lot number.          *)
(***************************************************************************)
\* str.replace('.0', '', regex=False): every occurrence removed, left to right.
RECURSIVE RemoveDotZero(_)
RemoveDotZero(s) ==
    IF Len(s) < 2 THEN s
    ELSE IF s[1] = "." /\ s[2] = "0" THEN RemoveDotZero(SubSeq(s, 3, Len(s)))
    ELSE <<s[1]>> \o RemoveDotZero(Tail(s))

\* The key column of a loaded sheet: astype(str).str.strip().str.replace('.0', '').
NormalizeKey(cell) == RemoveDotZero(Strip(cell))

\* The reference workbook: the sheets in the order they are searched, each a
\* sequence of rows (NO, Lot Num., Supplier) as astype(str) renders them.
ErpSheets ==
    << << [NO |-> <<"1", "3", "9", "9", "1", "2", ".", "0">>,
           LotNum |-> <<"2", "6", "0", "1">>, Supplier |-> <<"A", "z", "m", "i">>] >>,
       << [NO |-> <<"1", "3", "9", "8", "6", "5">>,
           LotNum |-> <<"1", "2", "3", "4">>, Supplier |-> <<"B", "a", "s", "e", "m", " ">>],
          [NO |-> <<"1", "3", "9", "8", "6", "5">>,
           LotNum |-> <<"5", "6", "7", "8">>, Supplier |-> <<"A", "l", "i">>] >> >>

load_excel_sheet(sheet) == [r \in 1..Len(sheet) |-> [sheet[r] EXCEPT !.NO = NormalizeKey(@)]]

\* float(lot_str) succeeds iff lot_str, with the whitespace around it
\* removed, is an optional sign and then inf, infinity or nan in any case of
\* the ASCII letters, or digits with at most one point (digits before it or
\* after it) and an optional exponent: e or E, an optional sign, digits.
\* Otherwise it raises ValueError.
FloatOk(s) ==
    LET Word(u, w) == Len(u) = Len(w) /\ \A i \in 1..Len(w) :
                          \E k \in 1..Len(LowerCase) :
                              w[i] = LowerCase[k] /\ u[i] \in {LowerCase[k], UpperCase[k]}
        Mantissa(m) ==
            \/ DigitPart(m)
            \/ \E p \in 1..Len(m) :
                   /\ m[p] = "."
                   /\ Len(m) > 1
                   /\ p = 1 \/ DigitPart(SubSeq(m, 1, p - 1))
                   /\ p = Len(m) \/ DigitPart(SubSeq(m, p + 1, Len(m)))
        Float(u) ==
            \/ Word(u, <<"i", "n", "f">>)
            \/ Word(u, <<"i", "n", "f", "i", "n", "i", "t", "y">>)
            \/ Word(u, <<"n", "a", "n">>)
            \/ Mantissa(u)
            \/ \E e \in 1..Len(u) :
                   /\ u[e] \in {"e", "E"}
                   /\ Mantissa(SubSeq(u, 1, e - 1))
                   /\ DigitPart(Unsigned(SubSeq(u, e + 1, Len(u))))
    IN Float(Unsigned(NumberIn(s)))

\* The first matching row of the loaded sheet df, or no row.
search_in_frame(cert_lot_number, df) ==
    LET lot_str == Strip(cert_lot_number)
        exact == {r \in 1..Len(df) : df[r].NO = lot_str}
        numeric == {r \in 1..Len(df) : RemoveDotZero(df[r].NO) = lot_str}
        First(rs) == CHOOSE r \in rs : \A q \in rs : r <= q
    IN IF exact # {} THEN [hit |-> TRUE, row |-> df[First(exact)]]
       ELSE IF FloatOk(lot_str) /\ numeric # {} THEN [hit |-> TRUE, row |-> df[First(numeric)]]
       ELSE [hit |-> FALSE]

\* The first matching row of the sheet, or no row.
search_lot_in_sheet(cert_lot_number, sheet) ==
    search_in_frame(cert_lot_number, load_excel_sheet(sheet))

RECURSIVE SearchSheets(_, _)
SearchSheets(cert_lot_number, k) ==
    IF k > Len(ErpSheets)
    THEN [cert_lot |-> cert_lot_number, found |-> FALSE, supplier |-> None, internal_lot |-> None]
    ELSE LET r == search_lot_in_sheet(cert_lot_number, ErpSheets[k])
         IN IF r.hit
            THEN [cert_lot |-> cert_lot_number, found |-> TRUE,
                  supplier |-> r.row.Supplier, internal_lot |-> r.row.LotNum]
            ELSE SearchSheets(cert_lot_number, k + 1)

search_lot(cert_lot_number) == SearchSheets(cert_lot_number, 1)

(***************************************************************************)
(* ERPAgent with its excel_cache.  An agent is the workbook file it reads  *)
(* (book: per sheet whether pd.read_excel succeeds, whether the three      *)
(* columns are there, and the rows), its excel_cache (per sheet the loaded *)
(* frame, once cached) and the number of pd.read_excel calls per sheet.    *)
(***************************************************************************)
\* load_excel_sheet: the cached frame if there is one; else the file is read,
\* and the frame is cached unless reading raised or a column is missing.
load_excel_sheet_cached(agent, k) ==
    IF agent.excel_cache[k].cached THEN agent
    ELSE IF ~agent.book[k].readable \/ ~agent.book[k].columns_ok
    THEN [agent EXCEPT !.reads[k] = @ + 1]
    ELSE [agent EXCEPT !.reads[k] = @ + 1,
                       !.excel_cache[k] =
                           [cached |-> TRUE, df |-> load_excel_sheet(agent.book[k].rows)]]

\* search_lot_in_sheet on the agent after load_excel_sheet.
search_loaded_sheet(cert_lot_number, loaded, k) ==
    IF loaded.excel_cache[k].cached
    THEN search_in_frame(cert_lot_number, loaded.excel_cache[k].df)
    ELSE [hit |-> FALSE]

\* search_lot: the sheets in order, up to the first one with a matching row.
RECURSIVE search_lot_cached(_, _, _)
search_lot_cached(agent, cert_lot_number, k) ==
    IF k > Len(agent.book)
    THEN [agent |-> agent,
          result |-> [cert_lot |-> cert_lot_number, found |-> FALSE,
                      supplier |-> None, internal_lot |-> None]]
    ELSE LET loaded == load_excel_sheet_cached(agent, k)
             r == search_loaded_sheet(cert_lot_number, loaded, k)
         IN IF r.hit
            THEN [agent |-> loaded,
                  result |-> [cert_lot |-> cert_lot_number, found |-> TRUE,
                              supplier |-> r.row.Supplier, internal_lot |-> r.row.LotNum]]
            ELSE search_lot_cached(loaded, cert_lot_number, k + 1)

process_lot_with_context(lot_num, info) ==
    LET base_result == search_lot(lot_num)
    IN IF info.type = "implicit" /\ base_result.found
       THEN base_result @@ [implicit_count |-> info.count, is_implicit |-> TRUE]
       ELSE search_lot(lot_num)

\* The arguments of the search_lot calls process_lot_with_context makes: the
\* lookup of an implicit lot that was not found is followed by the lookup
\* every lot gets.
search_lot_calls(lot_num, info) ==
    IF info.type = "implicit" /\ ~search_lot(lot_num).found THEN <<lot_num, lot_num>>
    ELSE <<lot_num>>

\* The arguments of all search_lot calls of search_multiple_lots, in call order.
search_lot_log(extraction_result) ==
    LET lot_numbers == extraction_result.lot_numbers
        lot_info_list == extraction_result.lot_info
    IN Flatten([i \in 1..Len(lot_numbers) |->
                   search_lot_calls(
                       lot_numbers[i],
                       IF i <= Len(lot_info_list) THEN lot_info_list[i]
                       ELSE [type |-> "single", num |-> lot_numbers[i]])])

search_multiple_lots(extraction_result) ==
    LET lot_numbers == extraction_result.lot_numbers
        lot_info_list == extraction_result.lot_info
    IN [i \in 1..Len(lot_numbers) |->
            process_lot_with_context(
                lot_numbers[i],
                IF i <= Len(lot_info_list) THEN lot_info_list[i]
                ELSE [type |-> "single", num |-> lot_numbers[i]])]

\* The text stamped when nothing was found.
NotRegistered ==
    <<"U+063A", "U+064A", "U+0631", " ", "U+0645", "U+0633", "U+062C", "U+0644", " ",
      "U+0641", "U+064A", " ", "U+0627", "U+0644", "U+0646", "U+0638", "U+0627", "U+0645">>

\* "\\n".join(parts): the parts are joined by a backslash and the letter n.
LineJoiner == <<BSL, "n">>

RECURSIVE Join(_, _)
Join(parts, sep) ==
    IF parts = <<>> THEN <<>>
    ELSE IF Len(parts) = 1 THEN parts[1]
    ELSE parts[1] \o sep \o Join(Tail(parts), sep)

RECURSIVE AnnotationParts(_)
AnnotationParts(lot_results) ==
    IF lot_results = <<>> THEN <<>>
    ELSE LET r == Head(lot_results)
             supplier == Strip(r.supplier)
             internal_lot == Strip(r.internal_lot)
         IN (IF r.found /\ supplier # <<>> /\ internal_lot # <<>>
             THEN <<supplier \o <<" ", " ">> \o internal_lot>>
             ELSE <<>>) \o AnnotationParts(Tail(lot_results))

\* A seeded fault: a lot that was not found leaves a question mark in the text.
generate_annotation_text_marked(lot_results) ==
    IF AnnotationParts(lot_results) = <<>> THEN NotRegistered
    ELSE Join(AnnotationParts(lot_results), LineJoiner)
             \o (IF \E i \in 1..Len(lot_results) : ~lot_results[i].found
                 THEN <<"?">> ELSE <<>>)

generate_annotation_text(lot_results) ==
    IF AnnotationParts(lot_results) = <<>> THEN NotRegistered
    ELSE Join(AnnotationParts(lot_results), LineJoiner)

\* A seeded fault: all_found without the test for an empty lot list.
erp_process_certificate_any(extraction_result) ==
    LET lot_results == search_multiple_lots(extraction_result)
        found_count == Cardinality({i \in 1..Len(lot_results) : lot_results[i].found})
    IN [lot_results |-> lot_results,
        annotation_text |-> generate_annotation_text(lot_results),
        all_found |-> (found_count = Len(lot_results))]

erp_process_certificate(extraction_result) ==
    LET lot_results == search_multiple_lots(extraction_result)
        found_count == Cardinality({i \in 1..Len(lot_results) : lot_results[i].found})
    IN [lot_results |-> lot_results,
        annotation_text |-> generate_annotation_text(lot_results),
        all_found |-> (found_count = Len(lot_results) /\ Len(lot_results) > 0)]

(***************************************************************************)
(* AnnotatePrintAgent.process_certificate with organize_files.  What the   *)
(* file system, the PDF library and the printer do is the environment's    *)
(* choice: env tells whether the original file exists, whether             *)
(* annotate_pdf produced a file, whether a printer is available, whether   *)
(* print_with_retry succeeded, what shutil.move of the original into       *)
(* Source_Cert did and whether the move of the annotated file put a file   *)
(* into Printed_Annotated_Cert.  shutil.move has three outcomes:           *)
(* "moved", the file is in Source_Cert and gone from its path; "copied",   *)
(* the rename failed, the copy into Source_Cert was made and removing the  *)
(* original raised, so the file is at both places; "refused", it raised    *)
(* with nothing copied.  In the last two organize_files leaves through its *)
(* except clause, before the annotated file is looked at.  The result      *)
(* tells what was done: printed is the value process_certificate returns,  *)
(* moved that the original is now in Source_Cert, printed_copy that a file *)
(* was added to Printed_Annotated_Cert, left that the original is still at *)
(* its path.                                                               *)
(***************************************************************************)
annotate_process_certificate_unguarded(erp_result, env) ==
    IF ~env.exists
    THEN [annotate_called |-> FALSE, stamped |-> None, print_called |-> FALSE,
          printed |-> FALSE, moved |-> FALSE, printed_copy |-> FALSE, left |-> FALSE]
    ELSE LET print_success == env.printer /\ env.print_ok
         IN [annotate_called |-> TRUE,
             stamped |-> IF env.annotate_ok THEN erp_result.annotation_text ELSE None,
             print_called |-> env.printer,
             printed |-> print_success,
             moved |-> env.move # "refused",
             printed_copy |-> (env.move = "moved" /\ print_success /\ env.annotate_ok
                                   /\ env.keep_ok),
             left |-> env.move # "moved"]

annotate_process_certificate(erp_result, env) ==
    IF ~env.exists
    THEN [annotate_called |-> FALSE, stamped |-> None, print_called |-> FALSE,
          printed |-> FALSE, moved |-> FALSE, printed_copy |-> FALSE, left |-> FALSE]
    ELSE IF ~env.annotate_ok
    THEN [annotate_called |-> TRUE, stamped |-> None, print_called |-> FALSE,
          printed |-> FALSE, moved |-> FALSE, printed_copy |-> FALSE, left |-> TRUE]
    ELSE LET print_success == env.printer /\ env.print_ok
         IN [annotate_called |-> TRUE,
             stamped |-> erp_result.annotation_text,
             print_called |-> env.printer,
             printed |-> print_success,
             moved |-> env.move # "refused",
             printed_copy |-> (env.move = "moved" /\ print_success /\ env.keep_ok),
             left |-> env.move # "moved"]

Envs == [exists : BOOLEAN, annotate_ok : BOOLEAN, printer : BOOLEAN, print_ok : BOOLEAN,
         move : {"moved", "copied", "refused"}, keep_ok : BOOLEAN]

(***************************************************************************)
(* The parse machine: parse_lot applied to a bounded set of arguments.     *)
(***************************************************************************)
NotYet == [type |-> "not_called", base_lot |-> None, count |-> 0,
           expanded_lots |-> <<>>, annotation_hint |-> None]

\* The pieces the arguments are made of: digit runs of length 1, 2, 3 and 5
\* (two of them joined still denote a count below 2^31), the two separators,
\* a space, a tab, a form feed, a letter, the superscript two and the
\* Arabic-Indic digit three.
ParseFrags ==
    { <<"0">>, <<"2">>, <<"3", "1">>, <<"1", "6", "3">>,
      <<"1", "3", "9", "9", "1">>, <<"/">>, <<"-">>, <<" ">>, <<"\t">>, <<"\f">>, <<"A">>,
      <<SUP2>>, <<"U+0663">> }

RECURSIVE Concats(_, _)
Concats(frags, n) ==
    IF n = 0 THEN {<<>>}
    ELSE LET shorter == Concats(frags, n - 1)
         IN shorter \cup {s \o f : s \in shorter, f \in frags}

ParseInputs == Concats(ParseFrags, MaxFrags)

NotCalled == [outcome |-> "not_called"]
NoAnn == [annotate_called |-> FALSE, stamped |-> None, print_called |-> FALSE,
          printed |-> FALSE, moved |-> FALSE, printed_copy |-> FALSE, left |-> FALSE]

\* A machine that is not part of the specification at hand.
Unused == [used |-> FALSE]

AgentsIdle ==
    /\ erpAgent = Unused
    /\ printJob = Unused
    /\ annotator = Unused
    /\ mailbox = Unused

NoVerdict == [returned |-> FALSE, value |-> FALSE]

FilterIdle ==
    /\ candidate = <<>>
    /\ verdict = NoVerdict

PipelineIdle ==
    /\ lookups = <<>>
    /\ pages = 0
    /\ text = <<>>
    /\ stage = "idle"
    /\ ext = NotCalled
    /\ jext = NotCalled
    /\ results = <<>>
    /\ erp = <<>>
    /\ ann = NoAnn
    /\ AgentsIdle

InitParse ==
    /\ raw \in ParseInputs
    /\ lot = NotYet
    /\ again = NotYet
    /\ FilterIdle
    /\ PipelineIdle

ParseLot ==
    /\ lot = NotYet
    /\ lot' = parse_lot(raw)
    /\ UNCHANGED <<raw, again, candidate, verdict, lookups, pages, text, stage, ext, jext,
                   results, erp, ann, agentVars>>

\* The caller parses the value of a single structure once more.
ParseAgain ==
    /\ lot.type = "single"
    /\ again = NotYet
    /\ again' = parse_lot(lot.base_lot)
    /\ UNCHANGED <<raw, lot, candidate, verdict, lookups, pages, text, stage, ext, jext,
                   results, erp, ann, agentVars>>

NextParse == ParseLot \/ ParseAgain

SpecParse == InitParse /\ [][NextParse]_vars

(***************************************************************************)
(* The document pipeline: one certificate goes through an extraction       *)
(* agent's run(), ERPAgent.run() and AnnotatePrintAgent.run(), each fed    *)
(* the list the stage before returned.                                     *)
(***************************************************************************)
\* The pieces the OCR texts are made of.  Ordinary certificate text: the
\* label, a lot number, a lot with a repeat count, two lots, two lots on one
\* line with 139928 the second.  Text carrying
\* the backslashes the patterns of setup_lot_patterns ask for: two bare
\* tokens, the label, and a token alone, with a second token, with a count;
\* a labelled token, and a page mark the exclusion pattern built from that
\* token matches (a backslash, a digit, four letters d).  And a lot number
\* written in Arabic-Indic digits.
TextFrags ==
    { LotNumberLabel,
      <<"1", "3", "9", "8", "6", "5">>,
      <<"1", "3", "9", "8", "6", "5", "/", "2">>,
      <<"1", "3", "9", "9", "1", "2", "/", "1", "3", "9", "9", "1", "3">>,
      <<"1", "3", "9", "8", "6", "5", " ", "1", "3", "9", "9", "2", "8">>,
      <<BSL, "b", BSL, "d", "d", "d", "d", "d", BSL, "b">>,
      <<BSL, "b", BSL, "d", "d", "d", "d", "d", "d", BSL, "b">>,
      <<"L", "o", "t", BSL, "N", "u", "m", "b", "e", "r", BSL, ":", BSL>>,
      <<BSL, "d", "d", "d", "d", "d", BSL, "b">>,
      <<BSL, "d", "d", "d", "d", "d", BSL, "/", BSL, BSL, "d", "d", "d", "d", "d", "d">>,
      <<BSL, "d", "d", "d", "d", "d", BSL, "/", BSL, BSL, "d", BSL, "b">>,
      <<"L", "o", "t", BSL, "N", "u", "m", "b", "e", "r", BSL, ":", BSL,
        BSL, "d", "d", "d", "d", "d", BSL, "b">>,
      <<"P", "a", "g", "e", BSL, "1", "d", "d", "d", "d">>,
      <<"U+0661", "U+0663", "U+0669", "U+0668", "U+0666", "U+0665">> }

TextInputs == Concats(TextFrags, MaxTextFrags)

Init ==
    /\ raw = <<>>
    /\ lot = NotYet
    /\ again = NotYet
    /\ FilterIdle
    /\ lookups = <<>>
    /\ text \in TextInputs
    /\ pages \in (IF text = <<>> THEN {0, 1} ELSE {1})
    /\ stage = "inbox"
    /\ ext = NotCalled
    /\ jext = NotCalled
    /\ results = <<>>
    /\ erp = <<>>
    /\ ann = NoAnn
    /\ AgentsIdle

\* ExtractLotAgent.run over an inbox holding the document: a ValueError of
\* extract_lot_numbers is caught nowhere and ends the run.
ExtractRun ==
    /\ stage = "inbox"
    /\ ext' = process_certificate([pages |-> pages, text |-> text])
    /\ results' = IF ext'.outcome = "result" THEN <<ext'>> ELSE <<>>
    /\ stage' = IF ext'.outcome = "ValueError" THEN "crashed" ELSE "extracted"
    /\ UNCHANGED <<raw, lot, again, candidate, verdict, lookups, pages, text, jext, erp, ann, agentVars>>

\* JSONExtractLotAgent.process_all over the OCR file of the document.
\* PDFtoImageAgent writes none for a document without a page image: then
\* process_json is not called and process_all returns the empty list.
JsonRun ==
    /\ stage = "inbox"
    /\ jext' = IF pages > 0 THEN process_json(text) ELSE jext
    /\ results' = IF jext'.outcome = "result" THEN <<jext'>> ELSE <<>>
    /\ stage' = "extracted"
    /\ UNCHANGED <<raw, lot, again, candidate, verdict, lookups, pages, text, ext, erp, ann, agentVars>>

\* ERPAgent.run: process_all when the list is not empty.
ErpRun ==
    /\ stage = "extracted"
    /\ erp' = [i \in 1..Len(results) |-> erp_process_certificate(results[i])]
    /\ lookups' = Flatten([i \in 1..Len(results) |-> search_lot_log(results[i])])
    /\ stage' = "looked_up"
    /\ UNCHANGED <<raw, lot, again, candidate, verdict, pages, text, ext, jext, results, ann, agentVars>>

\* AnnotatePrintAgent.run: nothing to do for an empty list, else
\* process_certificate on the document's ERP result.
AnnotateRun ==
    /\ stage = "looked_up"
    /\ \E env \in Envs :
          ann' = IF erp = <<>> THEN NoAnn ELSE annotate_process_certificate(erp[1], env)
    /\ stage' = "done"
    /\ UNCHANGED <<raw, lot, again, candidate, verdict, lookups, pages, text, ext, jext, results, erp, agentVars>>

Next == ExtractRun \/ JsonRun \/ ErpRun \/ AnnotateRun

Spec == Init /\ [][Next]_vars

(***************************************************************************)
(* The lookup machine: ERPAgent.run and AnnotatePrintAgent.run on an       *)
(* extraction result drawn from a bounded set of results: up to MaxLots    *)
(* different lot numbers, each with the lot_info entry of a single, an     *)
(* explicit or an implicit lot.                                            *)
(***************************************************************************)
\* Two lot numbers of the workbook, one it does not list, and a token of the
\* kind the patterns of setup_lot_patterns capture.
ErpLots ==
    { <<"1", "3", "9", "9", "1", "2">>, <<"1", "3", "9", "8", "6", "5">>,
      <<"1", "3", "9", "9", "9", "9">>, <<BSL, "d", "d", "d", "d", "d">> }

LotInfos ==
    [num : ErpLots, type : {"single", "explicit_multi"}]
        \cup [num : ErpLots, type : {"implicit"}, count : {2}]

\* lot_numbers holds no number twice.
FreshInfos(l) == {y \in LotInfos : \A k \in 1..Len(l) : l[k].num # y.num}

RECURSIVE LotInfoLists(_)
LotInfoLists(n) ==
    IF n = 0 THEN {<<>>}
    ELSE LET shorter == LotInfoLists(n - 1)
         IN shorter \cup UNION {{Append(l, x) : x \in FreshInfos(l)} : l \in shorter}

ExtractionOf(lot_info) ==
    [outcome |-> "result",
     lot_numbers |-> [i \in 1..Len(lot_info) |-> lot_info[i].num],
     lot_info |-> lot_info,
     lot_structure |-> determine_lot_type(lot_info)]

ErpInputs == {ExtractionOf(l) : l \in LotInfoLists(MaxLots)}

InitErp ==
    /\ results \in {<<x>> : x \in ErpInputs}
    /\ stage = "extracted"
    /\ raw = <<>>
    /\ lot = NotYet
    /\ again = NotYet
    /\ FilterIdle
    /\ lookups = <<>>
    /\ pages = 1
    /\ text = <<>>
    /\ ext = NotCalled
    /\ jext = NotCalled
    /\ erp = <<>>
    /\ ann = NoAnn
    /\ AgentsIdle

NextErp == ErpRun \/ AnnotateRun

SpecErp == InitErp /\ [][NextErp]_vars

(***************************************************************************)
(* The sheet machine: up to MaxLookups calls of search_lot on one ERPAgent *)
(* whose workbook is drawn from a bounded set of workbooks of two sheets.  *)
(***************************************************************************)
\* The sheets a workbook is made of: a float key, keys with ".0" inside, a
\* sheet without the Supplier column, a sheet name the file does not have.
SheetFiles ==
    { [readable |-> TRUE, columns_ok |-> TRUE,
       rows |-> << [NO |-> <<"1", "3", "9", "9", "1", "2", ".", "0">>,
                    LotNum |-> <<"2", "6", "0", "1">>, Supplier |-> <<"A", "z", "m", "i">>] >>],
      [readable |-> TRUE, columns_ok |-> TRUE,
       rows |-> << [NO |-> <<"1", "0", ".", "0", "5">>,
                    LotNum |-> <<"7", "7">>, Supplier |-> <<"A", "l", "i">>],
                   [NO |-> <<"A", ".", "0", "B">>,
                    LotNum |-> <<"8", "8">>, Supplier |-> <<"A", "l", "i">>] >>],
      [readable |-> TRUE, columns_ok |-> FALSE, rows |-> <<>>],
      [readable |-> FALSE, columns_ok |-> FALSE, rows |-> <<>>] }

NewAgent(book) ==
    [book |-> book,
     excel_cache |-> [k \in 1..Len(book) |-> [cached |-> FALSE]],
     reads |-> [k \in 1..Len(book) |-> 0],
     asked |-> <<>>,
     answers |-> <<>>]

InitSheet ==
    /\ erpAgent \in {NewAgent(<<a, b>>) : a \in SheetFiles, b \in SheetFiles}
    /\ printJob = Unused
    /\ annotator = Unused
    /\ mailbox = Unused
    /\ raw = <<>>
    /\ lot = NotYet
    /\ again = NotYet
    /\ FilterIdle
    /\ lookups = <<>>
    /\ pages = 0
    /\ text = <<>>
    /\ stage = "idle"
    /\ ext = NotCalled
    /\ jext = NotCalled
    /\ results = <<>>
    /\ erp = <<>>
    /\ ann = NoAnn

\* One call of search_lot.
SearchLot ==
    /\ Len(erpAgent.asked) < MaxLookups
    /\ \E n \in { <<"1", "3", "9", "9", "1", "2">>, <<" ", "1", "3", "9", "9", "1", "2", " ">>,
                   <<"1", "0", "5">>, <<"1", "0", ".", "0", "5">>, <<"A", "B">>,
                   <<"A", ".", "0", "B">>, <<"9", "9", "9">> } :
          LET done == search_lot_cached(erpAgent, n, 1)
          IN erpAgent' = [done.agent EXCEPT !.asked = Append(@, n),
                                            !.answers = Append(@, done.result)]
    /\ UNCHANGED <<pipelineVars, printJob, annotator, mailbox>>

SpecSheet == InitSheet /\ [][SearchLot]_vars

(***************************************************************************)
(* The print machine: one call of AnnotatePrintAgent.print_with_retry,     *)
(* step by step.  A job is the configured retry_attempts, whether the      *)
(* win32 modules were imported, the loop variable attempt, the place in    *)
(* the loop and the log of what happened: a print_pdf call that sent the   *)
(* job ("sent"), got a ShellExecute code of 32 or less ("refused"), caught *)
(* an exception ("raised") or found printing unavailable ("unavailable"),  *)
(* and a time.sleep(retry_delay) ("wait").                                 *)
(***************************************************************************)
NewJob(n, win32) ==
    [retry_attempts |-> n, win32 |-> win32, attempt |-> 0, pc |-> "loop", log |-> <<>>,
     returned |-> FALSE, value |-> FALSE]

\* What one call of print_pdf can come to.
print_pdf_outcomes(job) == IF job.win32 THEN {"sent", "refused", "raised"} ELSE {"unavailable"}

InitPrint ==
    /\ printJob \in {NewJob(n, w) : n \in 0..MaxRetries, w \in BOOLEAN}
    /\ erpAgent = Unused
    /\ annotator = Unused
    /\ mailbox = Unused
    /\ raw = <<>>
    /\ lot = NotYet
    /\ again = NotYet
    /\ FilterIdle
    /\ lookups = <<>>
    /\ pages = 0
    /\ text = <<>>
    /\ stage = "idle"
    /\ ext = NotCalled
    /\ jext = NotCalled
    /\ results = <<>>
    /\ erp = <<>>
    /\ ann = NoAnn

\* if self.print_pdf(pdf_path, attempt): return True
PrintPdf ==
    /\ printJob.pc = "loop"
    /\ printJob.attempt < printJob.retry_attempts
    /\ \E o \in print_pdf_outcomes(printJob) :
          printJob' = IF o = "sent"
                      THEN [printJob EXCEPT !.log = Append(@, o), !.pc = "done",
                                            !.returned = TRUE, !.value = TRUE]
                      ELSE [printJob EXCEPT !.log = Append(@, o), !.pc = "failed"]
    /\ UNCHANGED <<pipelineVars, erpAgent, annotator, mailbox>>

\* A seeded fault: the delay is kept after the last attempt too.
ShouldWaitAlways(job) == TRUE

\* if attempt < self.retry_attempts - 1
ShouldWait(job) == job.attempt < job.retry_attempts - 1

\* The rest of the loop body after a failed print_pdf: the delay when another
\* attempt follows, then the next value of attempt.
AfterFailure ==
    /\ printJob.pc = "failed"
    /\ printJob' = [printJob EXCEPT
                        !.log = IF ShouldWait(printJob) THEN Append(@, "wait") ELSE @,
                        !.attempt = @ + 1,
                        !.pc = "loop"]
    /\ UNCHANGED <<pipelineVars, erpAgent, annotator, mailbox>>

\* The loop is over: return False.
GiveUp ==
    /\ printJob.pc = "loop"
    /\ printJob.attempt >= printJob.retry_attempts
    /\ printJob' = [printJob EXCEPT !.pc = "done", !.returned = TRUE, !.value = FALSE]
    /\ UNCHANGED <<pipelineVars, erpAgent, annotator, mailbox>>

NextPrint == PrintPdf \/ AfterFailure \/ GiveUp

SpecPrint == InitPrint /\ [][NextPrint]_vars

(***************************************************************************)
(* The batch machine: AnnotatePrintAgent.process_all on a list of at most  *)
(* MaxCerts ERP results, each naming a file of its own.  One step is one   *)
(* turn of the loop: process_certificate, then the counter that the        *)
(* if / elif / else picks: printed when process_certificate returned True, *)
(* annotated_only when the file is no longer at file_path, else failed.    *)
(* outcomes and counted keep what each turn did and counted.               *)
(***************************************************************************)
InitAnnotate ==
    /\ \E n \in 0..MaxCerts :
          \E b \in [1..n -> {erp_process_certificate(ExtractionOf(<<[num |-> l, type |-> "single"]>>)) :
                             l \in {<<"1", "3", "9", "9", "1", "2">>, <<"1", "3", "9", "9", "9", "9">>}}] :
              annotator = [used |-> TRUE, erp_results |-> b, outcomes |-> <<>>, counted |-> <<>>,
                           results |-> [total |-> n, printed |-> 0, annotated_only |-> 0, failed |-> 0]]
    /\ erpAgent = Unused
    /\ printJob = Unused
    /\ mailbox = Unused
    /\ raw = <<>>
    /\ lot = NotYet
    /\ again = NotYet
    /\ FilterIdle
    /\ lookups = <<>>
    /\ pages = 0
    /\ text = <<>>
    /\ stage = "idle"
    /\ ext = NotCalled
    /\ jext = NotCalled
    /\ results = <<>>
    /\ erp = <<>>
    /\ ann = NoAnn

ProcessAll ==
    /\ Len(annotator.outcomes) < Len(annotator.erp_results)
    /\ \E env \in Envs :
          LET erp_result == annotator.erp_results[Len(annotator.outcomes) + 1]
              outcome == annotate_process_certificate(erp_result, env)
              counter == IF outcome.printed THEN "printed"
                         ELSE IF ~outcome.left THEN "annotated_only"
                         ELSE "failed"
          IN annotator' = [annotator EXCEPT !.outcomes = Append(@, outcome),
                                            !.counted = Append(@, counter),
                                            !.results[counter] = @ + 1]
    /\ UNCHANGED <<pipelineVars, erpAgent, printJob, mailbox>>

SpecAnnotate == InitAnnotate /\ [][ProcessAll]_vars

(***************************************************************************)
(* The mail machine: repeated OutlookAgent.monitor_inbox runs of one agent *)
(* on an Inbox of MaxMails emails, newest first; an email's EntryID is its *)
(* place in that order, and certs[id] tells how many certificate           *)
(* attachments it carries (attachments that is_certificate_file rejects    *)
(* are skipped and left out).  cursor tells whether setup_database opened  *)
(* the tracking database, processed is the content of the table            *)
(* processed_emails, saved[id][a] counts how often attachment a of email   *)
(* id was copied into Cert_Inbox.  The emails age: the loop breaks at the  *)
(* first email older than a day, so a run visits the newest upto emails    *)
(* and never more than the run before (recent).                            *)
(***************************************************************************)
InitMail ==
    /\ \E db \in BOOLEAN :
          \E c \in [1..MaxMails -> {1, 2}] :
              mailbox = [used |-> TRUE, outlook |-> FALSE, cursor |-> db, certs |-> c,
                         processed |-> {}, saved |-> [id \in 1..MaxMails |-> [a \in 1..c[id] |-> 0]],
                         recent |-> MaxMails, upto |-> 0, at |-> 0, pc |-> "idle", runs |-> 0]
    /\ erpAgent = Unused
    /\ printJob = Unused
    /\ annotator = Unused
    /\ raw = <<>>
    /\ lot = NotYet
    /\ again = NotYet
    /\ FilterIdle
    /\ lookups = <<>>
    /\ pages = 0
    /\ text = <<>>
    /\ stage = "idle"
    /\ ext = NotCalled
    /\ jext = NotCalled
    /\ results = <<>>
    /\ erp = <<>>
    /\ ann = NoAnn

\* monitor_inbox up to the loop: connect to Outlook unless connected, open
\* the Inbox and sort it.  The run is over at once when Outlook cannot be
\* started, when GetNamespace, GetDefaultFolder or Sort raises (the outer
\* except returns [], Outlook stays connected), or when the newest email is
\* older than a day.
MonitorInbox ==
    /\ mailbox.pc = "idle"
    /\ mailbox.runs < MaxRuns
    /\ \E start_outlook, inbox_ok \in BOOLEAN :
          \E k \in 0..mailbox.recent :
              mailbox' = IF ~mailbox.outlook /\ ~start_outlook
                         THEN [mailbox EXCEPT !.runs = @ + 1]
                         ELSE IF ~inbox_ok
                         THEN [mailbox EXCEPT !.outlook = TRUE, !.runs = @ + 1]
                         ELSE IF k = 0
                         THEN [mailbox EXCEPT !.outlook = TRUE, !.recent = 0, !.upto = 0,
                                              !.runs = @ + 1]
                         ELSE [mailbox EXCEPT !.outlook = TRUE, !.recent = k, !.upto = k,
                                              !.at = 1, !.pc = "loop"]
    /\ UNCHANGED <<pipelineVars, erpAgent, printJob, annotator>>

\* One turn of the loop of monitor_inbox: is_email_processed (False without
\* a cursor or when the query raises), then, for an email not known as
\* processed, save_email_and_attachments (an attachment whose SaveAsFile or
\* copy2 raises is logged and skipped) and mark_email_processed (nothing
\* without a cursor or when the insert raises).  An email whose ReceivedTime
\* or EntryID raises is passed over (the inner except); when fetching the
\* next email raises, the outer except ends the run.
NextMessage ==
    /\ mailbox.pc = "loop"
    /\ \E message_ok, query_ok, insert_ok, next_ok \in BOOLEAN :
          \E copied \in SUBSET (1..mailbox.certs[mailbox.at]) :
              LET id == mailbox.at
                  is_email_processed == mailbox.cursor /\ query_ok /\ id \in mailbox.processed
                  after == IF ~message_ok \/ is_email_processed THEN mailbox
                           ELSE [mailbox EXCEPT
                                    !.saved[id] = [a \in 1..mailbox.certs[id] |->
                                                      IF a \in copied THEN @[a] + 1 ELSE @[a]],
                                    !.processed = IF mailbox.cursor /\ insert_ok
                                                  THEN @ \cup {id} ELSE @]
              IN mailbox' = IF id = mailbox.upto \/ ~next_ok
                            THEN [after EXCEPT !.pc = "idle", !.runs = @ + 1]
                            ELSE [after EXCEPT !.at = @ + 1]
    /\ UNCHANGED <<pipelineVars, erpAgent, printJob, annotator>>

NextMail == MonitorInbox \/ NextMessage

SpecMail == InitMail /\ [][NextMail]_vars

(***************************************************************************)
(* The filter machine: _is_false_positive applied to a bounded set of      *)
(* candidates and texts.                                                   *)
(***************************************************************************)
\* The candidates: a configured year, another year, lot numbers, a digit,
\* and a token as the bare-number pattern captures it.
FilterNumbers ==
    { <<"2", "0", "2", "5">>, <<"2", "0", "2", "2">>, <<"1", "3", "9", "9", "2", "8">>,
      <<"1", "3", "9", "8", "6", "5">>, <<"7">>, <<BSL, "d", "d", "d", "d", "d">> }

\* The pieces the texts are made of: the keywords as a certificate prints
\* them, the lot label, the numbers, a keyword followed by the backslashes
\* the exclusion patterns ask for, and a page mark that the pattern built
\* from the number \ddddd matches at an Arabic-Indic digit.
FilterFrags ==
    { <<"D", "a", "t", "e", ":", " ">>, <<"Y", "E", "A", "R", " ">>, <<"P", "a", "g", "e", " ">>,
      <<"C", "e", "r", "t", "i", "f", "i", "c", "a", "t", "e", " ">>,
      LotNumberLabel, <<"1", "3", "9", "9", "2", "8">>, <<"7">>, <<"2", "0", "2", "5">>,
      <<"D", "a", "t", "e", BSL, ":", BSL>>,
      <<"P", "a", "g", "e", BSL, "U+0663", "d", "d", "d", "d">> }

InitFilter ==
    /\ candidate \in FilterNumbers
    /\ text \in Concats(FilterFrags, MaxFilterFrags)
    /\ verdict = NoVerdict
    /\ raw = <<>>
    /\ lot = NotYet
    /\ again = NotYet
    /\ lookups = <<>>
    /\ pages = 0
    /\ stage = "idle"
    /\ ext = NotCalled
    /\ jext = NotCalled
    /\ results = <<>>
    /\ erp = <<>>
    /\ ann = NoAnn
    /\ AgentsIdle

IsFalsePositive ==
    /\ ~verdict.returned
    /\ verdict' = [returned |-> TRUE, value |-> is_false_positive(candidate, text)]
    /\ UNCHANGED <<raw, lot, again, candidate, lookups, pages, text, stage, ext, jext,
                   results, erp, ann, agentVars>>

SpecFilter == InitFilter /\ [][IsFalsePositive]_vars

(***************************************************************************)
(* The properties of parse_lot, checked under SpecParse.                   *)
(***************************************************************************)
\* The digits of the properties are 0 to 9.
TenDigits == {"0", "1", "2", "3", "4", "5", "6", "7", "8", "9"}
IsDecimal(s) == s # <<>> /\ \A i \in 1..Len(s) : s[i] \in TenDigits

\* The strings of the form L/R: one slash, decimal digits on both sides.
SlashAt(s) == CHOOSE k \in 1..Len(s) : s[k] = "/"
LeftOf(s) == SubSeq(s, 1, SlashAt(s) - 1)
RightOf(s) == SubSeq(s, SlashAt(s) + 1, Len(s))
IsPair(s) ==
    /\ Cardinality({k \in 1..Len(s) : s[k] = "/"}) = 1
    /\ IsDecimal(LeftOf(s))
    /\ IsDecimal(RightOf(s))

Parsed == lot # NotYet /\ lot.type # "ValueError"

\* C1: for a raw string L/R whose right side has at least 5 digits, parse_lot
\* returns an explicit multi-lot structure whose lots are L and R, in order.
C1_PairIsExplicit ==
    (Parsed /\ IsPair(raw) /\ Len(RightOf(raw)) >= 5)
        => /\ lot.type = "explicit_multi"
           /\ lot.expanded_lots = <<LeftOf(raw), RightOf(raw)>>

\* The number a string of one or two decimal digits denotes.
Units(c) == CHOOSE n \in 0..9 : <<"0", "1", "2", "3", "4", "5", "6", "7", "8", "9">>[n + 1] = c
SmallValue(s) == IF Len(s) = 1 THEN Units(s[1]) ELSE 10 * Units(s[1]) + Units(s[2])

\* C7: for a raw string L/R whose right side has one or two digits, parse_lot
\* returns implicit_multi with base_lot L, count int(R) and expanded_lots [L].
C7_CountIsImplicit ==
    (lot # NotYet /\ IsPair(raw) /\ Len(RightOf(raw)) \in 1..2)
        => /\ lot.type = "implicit_multi"
           /\ lot.base_lot = LeftOf(raw)
           /\ lot.count = SmallValue(RightOf(raw))
           /\ lot.expanded_lots = <<LeftOf(raw)>>

\* parse_lot has returned for 163/31: base 163, count 31.
C7_Witness ==
    /\ raw = <<"1", "6", "3", "/", "3", "1">>
    /\ lot.type = "implicit_multi"
    /\ lot.base_lot = <<"1", "6", "3">>
    /\ lot.count = 31

\* C8: every implicit_multi structure parse_lot returns has count >= 1, and
\* its annotation_hint is "+" followed by count - 1, which is not negative.
C8_CountAtLeastOne ==
    (Parsed /\ lot.type = "implicit_multi")
        => /\ lot.count >= 1
           /\ lot.annotation_hint = <<"+">> \o NatStr(lot.count - 1)
           /\ "-" \notin Range(lot.annotation_hint)

\* C9: a string with a hyphen is explicit_multi only if splitting it on "-"
\* gives at least two parts, all of them non-empty, numeric and of length >= 3.
C9_HyphenPartsAreLots ==
    (Parsed /\ lot.type = "explicit_multi" /\ "-" \in Range(raw))
        => LET parts == Split(RemoveSpaces(Strip(raw)), "-")
           IN /\ Len(parts) >= 2
              /\ \A i \in 1..Len(parts) : IsDecimal(parts[i]) /\ Len(parts[i]) >= 3

\* C10: the structure parse_lot returns has no empty string among its
\* expanded_lots, and its base_lot, when set, is not empty.
C10_NoEmptyLot ==
    Parsed
        => /\ \A i \in 1..Len(lot.expanded_lots) : lot.expanded_lots[i] # <<>>
           /\ lot.base_lot # None => lot.base_lot # <<>>

\* The input with the blanks at both ends cut off and its spaces removed: what
\* is left of the stretch from the first to the last character that is no blank.
Inked(s) == {i \in 1..Len(s) : s[i] \notin {" ", "\t", "\n", "\f", "\r"}}
FirstInked(s) == CHOOSE i \in Inked(s) : \A j \in Inked(s) : i <= j
LastInked(s) == CHOOSE i \in Inked(s) : \A j \in Inked(s) : j <= i
Unspaced(s) == [k \in 1..Cardinality({i \in 1..Len(s) : s[i] # " "}) |->
                  s[CHOOSE i \in 1..Len(s) :
                      s[i] # " " /\ Cardinality({j \in 1..i : s[j] # " "}) = k]]
Trimmed(s) ==
    IF Inked(s) = {} THEN <<>> ELSE Unspaced(SubSeq(s, FirstInked(s), LastInked(s)))

\* The multi-lot shapes: parts joined by "-", two or more and each a run of
\* three or more digits; or digits, one "/", digits.
MultiLotShape(s) ==
    \/ /\ "-" \in Range(s)
       /\ LET parts == Split(s, "-")
          IN /\ Len(parts) >= 2
             /\ \A i \in 1..Len(parts) : IsDecimal(parts[i]) /\ Len(parts[i]) >= 3
    \/ IsPair(s)

\* C11: a string with neither "/" nor "-", or one that has not a multi-lot
\* shape, parses to a single structure with the trimmed input without its
\* spaces as base_lot and as its only expanded lot; parsing that value again
\* returns the same structure.
C11_ElseSingle ==
    /\ (lot # NotYet /\ ~MultiLotShape(Trimmed(raw)))
           => /\ lot.type = "single"
              /\ lot.base_lot = Trimmed(raw)
              /\ lot.expanded_lots = <<Trimmed(raw)>>
    /\ again # NotYet => again = lot

\* C12: parse_lot never raises: every call returns a structure whose type is
\* single, explicit_multi or implicit_multi.
C12_AlwaysAStructure ==
    lot # NotYet => lot.type \in {"single", "explicit_multi", "implicit_multi"}

(***************************************************************************)
(* The properties of the document pipeline, checked under Spec.            *)
(***************************************************************************)
\* What a reader of the certificate sees in its text: the label "Lot Number : "
\* followed by a run of decimal digits, alone, with a count or with a second lot.
LabelText == <<"L", "o", "t", " ", "N", "u", "m", "b", "e", "r", " ", ":", " ">>

RunLength(t, i) ==
    CHOOSE n \in 0..Len(t) :
        /\ \A j \in 0..(n - 1) : i + j <= Len(t) /\ t[i + j] \in TenDigits
        /\ i + n > Len(t) \/ t[i + n] \notin TenDigits

RunAt(t, i) == SubSeq(t, i, i + RunLength(t, i) - 1)

\* The positions right after a label where a lot number of 5 to 7 digits starts.
LabelledAt(t) ==
    {i \in 1..Len(t) : /\ i > Len(LabelText)
                       /\ SubSeq(t, i - Len(LabelText), i - 1) = LabelText
                       /\ RunLength(t, i) \in 5..7}

LabelledLots(t) == {RunAt(t, i) : i \in LabelledAt(t)}

\* The positions of the labelled lots that a slash and more digits follow.
SlashedAt(t) ==
    {i \in LabelledAt(t) : /\ i + RunLength(t, i) <= Len(t)
                           /\ t[i + RunLength(t, i)] = "/"}

AfterSlash(t, i) == RunAt(t, i + RunLength(t, i) + 1)

LabelledCounts(t) ==
    {[num |-> RunAt(t, i), count |-> SmallValue(AfterSlash(t, i))] :
        i \in {k \in SlashedAt(t) : Len(AfterSlash(t, k)) \in 1..2}}

LabelledPairs(t) ==
    {<<RunAt(t, i), AfterSlash(t, i)>> :
        i \in {k \in SlashedAt(t) : Len(AfterSlash(t, k)) \in 5..7}}

\* C2: an extractor that finds no lot number returns no result; it never
\* returns a result with an empty lot list and lot_structure "unknown".
C2_NoEmptyResult ==
    /\ ext.outcome = "result" => ext.lot_numbers # <<>> /\ ext.lot_structure # "unknown"
    /\ jext.outcome = "result" => jext.lot_numbers # <<>> /\ jext.lot_structure # "unknown"

\* Extraction has run and left the document without a lot number.
ZeroLots ==
    \/ ext # NotCalled /\ (ext.outcome # "result" \/ ext.lot_numbers = <<>>)
    \/ jext # NotCalled /\ (jext.outcome # "result" \/ jext.lot_numbers = <<>>)

\* C3: a document with zero lot numbers never reaches a lookup or an
\* annotation: no ERP result is built for it and annotate_pdf is not called.
C3_NoLookupWithoutLot == ZeroLots => erp = <<>> /\ ~ann.annotate_called

\* C4: when the text holds a lot label followed by a number N of 5 to 7
\* digits, the lot_numbers of extract_lot_numbers contain N.
C4_LabelledLotFound ==
    ext.outcome = "result" => LabelledLots(text) \subseteq Range(ext.lot_numbers)

\* C5: when the text holds a labelled lot N/c with a count c of 1 or 2 digits,
\* extraction records N as an implicit multi-lot of count c and the
\* document's lot_structure is implicit_multi.
C5_CountedLotIsImplicit ==
    \A c \in LabelledCounts(text) :
        /\ ext.outcome = "result"
              => /\ ext.lot_structure = "implicit_multi"
                 /\ \E i \in 1..Len(ext.lot_info) :
                       ext.lot_info[i] = [num |-> c.num, type |-> "implicit", count |-> c.count]
        /\ jext.outcome = "result"
              => /\ jext.lot_structure = "implicit_multi"
                 /\ c.num \in Range(jext.lot_numbers)

Explicits(info) == {i \in 1..Len(info) : info[i].type = "explicit_multi"}
AnyImplicit(info) == \E i \in 1..Len(info) : info[i].type = "implicit"

\* C6: determine_lot_type returns one of four tags: implicit_multi if any
\* token is implicit, else explicit_multi if at least two tokens are
\* explicit, else single if there is exactly one token, else unknown, and
\* unknown only for zero tokens; a text naming two lots as A/B after the
\* label is tagged explicit_multi.
C6_FourTags ==
    ext.outcome = "result"
        => /\ ext.lot_structure \in {"single", "explicit_multi", "implicit_multi", "unknown"}
           /\ AnyImplicit(ext.lot_info) => ext.lot_structure = "implicit_multi"
           /\ (~AnyImplicit(ext.lot_info) /\ Cardinality(Explicits(ext.lot_info)) >= 2)
                 => ext.lot_structure = "explicit_multi"
           /\ (~AnyImplicit(ext.lot_info) /\ Cardinality(Explicits(ext.lot_info)) < 2
                 /\ Len(ext.lot_info) = 1) => ext.lot_structure = "single"
           /\ ext.lot_structure = "unknown" => ext.lot_info = <<>>
           /\ LabelledPairs(text) # {} => ext.lot_structure = "explicit_multi"

\* The text extract_lot_numbers searched: the page text and the page separator.
Searched == text \o PageBreak

\* The patterns of setup_lot_patterns that start with the label Lot.
LotLabelled == {1, 2, 3, 4, 5, 6, 8}
LabelledCaptures ==
    UNION { {m.caps[1] : m \in Range(re_finditer(lot_patterns[i].elems, Searched))} :
            i \in LotLabelled }

\* C13: every number captured by a pattern that starts with the label Lot is
\* in lot_numbers, whatever else the text holds: the false-positive check is
\* applied to the matches of the fallback pattern only.
C13_LabelledAlwaysAdded ==
    ext.outcome = "result" => \A n \in LabelledCaptures : n \in Range(ext.lot_numbers)

\* The matches in order of discovery, each with the number of its pattern.
Sightings(ms, i) == [j \in 1..Len(ms) |-> [caps |-> ms[j].caps, pattern |-> i]]
Discovered(t) ==
    Flatten([i \in 1..Len(lot_patterns) |->
                Sightings(re_finditer(lot_patterns[i].elems, t), i)])

\* The numbers a match contributes: none for a fallback match flagged as a
\* false positive, both lots of an explicit pair, else the captured number.
NumbersOf(m, t) ==
    IF m.pattern = 9
    THEN IF is_false_positive(m.caps[1], t) THEN <<>> ELSE <<m.caps[1]>>
    ELSE IF m.pattern = 5 THEN <<m.caps[1], m.caps[2]>>
    ELSE <<m.caps[1]>>
AllNumbers(ds, t) == Flatten([j \in 1..Len(ds) |-> NumbersOf(ds[j], t)])

\* A list without the repetitions of its values, each at its first position.
FirstSeen(ns) ==
    LET firsts == {j \in 1..Len(ns) : \A k \in 1..(j - 1) : ns[k] # ns[j]}
    IN [k \in 1..Cardinality(firsts) |->
           ns[CHOOSE j \in firsts : Cardinality({x \in firsts : x <= j}) = k]]

\* C15: lot_numbers holds no value twice and is the list, in order of first
\* discovery, of the numbers matched by any pattern, fallback matches flagged
\* as false positives excepted.
C15_EveryMatchListed ==
    ext.outcome = "result"
        => ext.lot_numbers = FirstSeen(AllNumbers(Discovered(Searched), Searched))

\* C20: no exception escapes the batch loop of an extraction agent: a
\* document whose extraction fails is passed over and the run returns its list.
C20_NoRunAborts == stage # "crashed" /\ ext.outcome # "ValueError"

(***************************************************************************)
(* The properties of _is_false_positive, checked under SpecFilter.         *)
(***************************************************************************)
\* The candidate stands in the text right after one of the four keywords, in
\* any case, with nothing between them but blanks and at most one colon.
Keywords ==
    { <<"D", "A", "T", "E">>, <<"Y", "E", "A", "R">>, <<"P", "A", "G", "E">>,
      <<"C", "E", "R", "T", "I", "F", "I", "C", "A", "T", "E">> }
Capital(c) ==
    IF \E k \in 1..26 : LowerCase[k] = c
    THEN UpperCase[CHOOSE k \in 1..26 : LowerCase[k] = c] ELSE c
StandsAt(w, t, p) ==
    /\ p + Len(w) - 1 <= Len(t)
    /\ \A k \in 1..Len(w) : Capital(t[p + k - 1]) = Capital(w[k])
GapOk(g) ==
    /\ \A k \in 1..Len(g) : g[k] \in {" ", "\t", "\n", "\r", ":"}
    /\ Cardinality({k \in 1..Len(g) : g[k] = ":"}) <= 1
OccursAfterKeyword(n, t) ==
    \E w \in Keywords : \E p \in 1..Len(t) : \E q \in (p + Len(w))..Len(t) :
        /\ StandsAt(w, t, p)
        /\ GapOk(SubSeq(t, p + Len(w), q - 1))
        /\ StandsAt(n, t, q)

\* C14: _is_false_positive returns true when the candidate is a year from
\* 2023 to 2026 or stands in the text right after Date, Year, Page or
\* Certificate, and false otherwise.
C14_FlagsYearsAndKeywords ==
    verdict.returned
        => (verdict.value <=> (candidate \in Years \/ OccursAfterKeyword(candidate, text)))

(***************************************************************************)
(* The properties of the lookup and of the stamped text, checked under     *)
(* SpecErp.                                                                *)
(***************************************************************************)
\* The lot numbers a reader finds in the key column of the workbook.
Registered == { <<"1", "3", "9", "9", "1", "2">>, <<"1", "3", "9", "8", "6", "5">> }

\* The document handed to ERPAgent, its lots, and what ERPAgent returned for it.
Looked == erp # <<>>
DocLots == results[1].lot_numbers
DocInfo == results[1].lot_info
PerLot == erp[1].lot_results

\* The line of a found lot: supplier, two spaces, internal lot number.
IsFound(r) == r.found
LineOf(r) == Strip(r.supplier) \o <<" ", " ">> \o Strip(r.internal_lot)
FoundLines(rs) == [k \in 1..Len(SelectSeq(rs, IsFound)) |-> LineOf(SelectSeq(rs, IsFound)[k])]

\* The lines of a text: the parts between its line-break characters.
LinesOf(t) == Split(t, "\n")

\* C16: the annotation text of a document with a found lot has one line per
\* found lot, supplier and internal lot separated by two spaces, in lot order,
\* the lines separated by line breaks; when every lot is found all_found is
\* true and the text has as many lines as the document has lot numbers.
C16_OneLinePerFoundLot ==
    (Looked /\ \E i \in 1..Len(PerLot) : PerLot[i].found)
        => /\ LinesOf(erp[1].annotation_text) = FoundLines(PerLot)
           /\ (\A i \in 1..Len(PerLot) : PerLot[i].found)
                  => /\ erp[1].all_found
                     /\ Len(LinesOf(erp[1].annotation_text)) = Len(DocLots)

\* C17: all_found is true exactly when the document has a lot number and
\* every lot number of the document is registered in the workbook.
C17_AllFoundIffEveryHit ==
    Looked
        => (erp[1].all_found
               <=> (DocLots # <<>> /\ \A i \in 1..Len(DocLots) : DocLots[i] \in Registered))

\* ERPAgent has answered for a document with two lots, both registered.
C17_Witness ==
    /\ Looked
    /\ Len(DocLots) = 2
    /\ erp[1].all_found

\* C18: search_lot is called once per lot number, in lot order, and
\* search_multiple_lots returns one result per lot number in the same order.
C18_OneLookupPerLot ==
    Looked
        => /\ lookups = DocLots
           /\ Len(PerLot) = Len(DocLots)
           /\ \A i \in 1..Len(DocLots) : PerLot[i].cert_lot = DocLots[i]

\* The text sub occurs in the text t.
Occurs(sub, t) == \E p \in 1..(Len(t) - Len(sub) + 1) : SubSeq(t, p, p + Len(sub) - 1) = sub

\* C19: the ERP result of a found implicit lot carries its repeat count, and
\* the text stamped on the document has the hint "+" count - 1 on the line
\* of that lot.
C19_HintIsStamped ==
    Looked
        => \A i \in 1..Len(DocLots) :
              (DocInfo[i].type = "implicit" /\ PerLot[i].found)
                  => /\ PerLot[i].implicit_count = DocInfo[i].count
                     /\ ann.stamped # None
                            => \E k \in 1..Len(LinesOf(ann.stamped)) :
                                   /\ Occurs(LineOf(PerLot[i]), LinesOf(ann.stamped)[k])
                                   /\ Occurs(<<"+">> \o NatStr(DocInfo[i].count - 1),
                                             LinesOf(ann.stamped)[k])

\* C22: a lot number the workbook does not list gets a result with found
\* false and neither supplier nor internal lot; the annotation text is the one
\* the found lots alone would give, and all_found is false.
C22_MissIsNoError ==
    Looked
        => /\ \A i \in 1..Len(DocLots) :
                 DocLots[i] \notin Registered
                     => /\ ~PerLot[i].found
                        /\ PerLot[i].supplier = None
                        /\ PerLot[i].internal_lot = None
                        /\ ~erp[1].all_found
           /\ erp[1].annotation_text = generate_annotation_text(SelectSeq(PerLot, IsFound))

\* ERPAgent has answered for a document with a registered and an unregistered lot.
C22_Witness ==
    /\ Looked
    /\ DocLots = << <<"1", "3", "9", "8", "6", "5">>, <<"1", "3", "9", "9", "9", "9">> >>
    /\ PerLot[1].found
    /\ ~PerLot[2].found

\* C29: in a result of ExtractLotAgent and in a result of
\* JSONExtractLotAgent.process_json, lot_info is as long as lot_numbers and
\* its i-th entry carries the i-th lot number.
C29_InfoAlignedWithNumbers ==
    \A r \in {ext, jext} :
        r.outcome = "result"
            => /\ Len(r.lot_info) = Len(r.lot_numbers)
               /\ \A i \in 1..Len(r.lot_numbers) : r.lot_info[i].num = r.lot_numbers[i]

C29_Witness ==
    /\ ext.outcome = "result"
    /\ Len(ext.lot_numbers) = 2
    /\ ext.lot_info[2].type = "explicit_multi"

LabelPatterns == {k \in 1..3 : re_search(json_patterns[k], text).ok}

BareNumbers == re_finditer(json_patterns[4], text)

ExpectedLot ==
    IF LabelPatterns # {}
    THEN re_search(json_patterns[CHOOSE k \in LabelPatterns : \A j \in LabelPatterns : k <= j],
                   text).caps[1]
    ELSE IF BareNumbers # <<>> THEN BareNumbers[1].caps[1]
    ELSE None

\* C30: the lot of the JSON extraction is the number after the label
\* "Lot Number :" when the text has one, else the first run of 6 or 7 digits
\* in text order, else there is none.
C30_FirstMatchWins ==
    jext # NotCalled
        => IF ExpectedLot = None THEN jext.outcome # "result"
           ELSE jext.outcome = "result" /\ jext.lot_info[1].num = ExpectedLot

(***************************************************************************)
(* The properties of the sheet cache and of the key match, checked under   *)
(* SpecSheet.                                                              *)
(***************************************************************************)
\* C21: over any sequence of lookups on one agent, no sheet is read from the
\* workbook file more than once.
C21_EachSheetReadOnce ==
    \A k \in 1..Len(erpAgent.reads) : erpAgent.reads[k] <= 1

\* A key as the claim normalises it: trimmed, a ".0" at its end cut off.
Trim(s) == IF Inked(s) = {} THEN <<>> ELSE SubSeq(s, FirstInked(s), LastInked(s))
EndsInDotZero(s) == Len(s) >= 2 /\ s[Len(s) - 1] = "." /\ s[Len(s)] = "0"
KeyOf(cell) ==
    IF EndsInDotZero(Trim(cell)) THEN SubSeq(Trim(cell), 1, Len(Trim(cell)) - 2)
    ELSE Trim(cell)

\* The keys of the sheets of the workbook that can be loaded.
BookKeys(book) ==
    UNION { {KeyOf(book[k].rows[r].NO) : r \in 1..Len(book[k].rows)} :
            k \in {j \in 1..Len(book) : book[j].readable /\ book[j].columns_ok} }

\* C23: a lot number is found iff, trimmed, it equals the key of a row with
\* a trailing ".0" removed; a ".0" inside a key is left alone.
C23_OnlyTrailingDotZero ==
    \A i \in 1..Len(erpAgent.asked) :
        erpAgent.answers[i].found <=> Trim(erpAgent.asked[i]) \in BookKeys(erpAgent.book)

(***************************************************************************)
(* The properties of print_with_retry, checked under SpecPrint.            *)
(***************************************************************************)
IsAttempt(e) == e \in {"sent", "refused", "raised", "unavailable"}
Attempts(log) == Cardinality({i \in 1..Len(log) : IsAttempt(log[i])})

\* C24: print_with_retry calls print_pdf at most retry_attempts times and not
\* again after a call that succeeded; it sleeps only between two calls; it
\* returns true iff a call succeeded, and false without a call when
\* retry_attempts is 0.
C24_RetryDiscipline ==
    /\ Attempts(printJob.log) <= printJob.retry_attempts
    /\ \A i \in 1..Len(printJob.log) :
          /\ printJob.log[i] = "sent" => i = Len(printJob.log)
          /\ printJob.log[i] = "wait"
                 => /\ i > 1 /\ IsAttempt(printJob.log[i - 1])
                    /\ i < Len(printJob.log) => IsAttempt(printJob.log[i + 1])
                    /\ printJob.returned => i < Len(printJob.log)
    /\ printJob.returned
          => /\ printJob.value <=> \E i \in 1..Len(printJob.log) : printJob.log[i] = "sent"
             /\ printJob.retry_attempts = 0 => ~printJob.value /\ printJob.log = <<>>

\* print_with_retry has returned false after three refused attempts with a
\* delay after the first and the second.
C24_Witness ==
    /\ printJob.returned
    /\ ~printJob.value
    /\ printJob.log = <<"refused", "wait", "refused", "wait", "refused">>

(***************************************************************************)
(* The properties of process_all and process_certificate, checked under    *)
(* SpecAnnotate.                                                           *)
(***************************************************************************)
Handled == 1..Len(annotator.outcomes)

Annotated(i) == annotator.outcomes[i].stamped # None

\* C25: a certificate is counted annotated_only only if it was annotated and
\* not printed, it is counted failed whenever its file was missing or its
\* annotation failed, and the three counters add up to the certificates
\* handled (to total once the loop has ended).
C25_CountersTellWhatHappened ==
    /\ annotator.results.printed + annotator.results.annotated_only
           + annotator.results.failed = Len(annotator.outcomes)
    /\ Len(annotator.outcomes) <= annotator.results.total
    /\ \A i \in Handled :
          /\ annotator.counted[i] = "annotated_only"
                 => Annotated(i) /\ ~annotator.outcomes[i].printed
          /\ ~Annotated(i) => annotator.counted[i] = "failed"

\* C26: print_with_retry is called only after annotate_pdf gave a file; when
\* the source file is missing or the annotation fails, process_certificate
\* returns False, the original stays where it was and nothing is added to
\* Source_Cert or to Printed_Annotated_Cert.
C26_NoPrintNoMoveWithoutAnnotation ==
    \A i \in Handled :
        /\ annotator.outcomes[i].print_called => Annotated(i)
        /\ ~Annotated(i)
              => /\ ~annotator.outcomes[i].printed
                 /\ ~annotator.outcomes[i].moved
                 /\ ~annotator.outcomes[i].printed_copy
                 /\ annotator.outcomes[i].annotate_called => annotator.outcomes[i].left

C26_Witness ==
    /\ Len(annotator.outcomes) = 2
    /\ annotator.outcomes[1].annotate_called
    /\ ~Annotated(1)
    /\ annotator.outcomes[1].left
    /\ ~annotator.outcomes[2].annotate_called
    /\ Len(annotator.erp_results[1].annotation_text) > 0


(***************************************************************************)
(* The properties of the mail tracking, checked under SpecMail.            *)
(***************************************************************************)
InCertInbox(id) == \A a \in 1..mailbox.certs[id] : mailbox.saved[id][a] > 0

\* C27: an email is in processed_emails only if every one of its
\* certificate attachments was saved into Cert_Inbox.
C27_MarkedOnlyWhenSaved ==
    \A id \in mailbox.processed : InCertInbox(id)

\* C28: over all runs, no attachment of an email is saved more than once,
\* whether or not the tracking database could be opened, queried or
\* written.
C28_SavedAtMostOnce ==
    \A id \in 1..MaxMails : \A a \in 1..mailbox.certs[id] : mailbox.saved[id][a] <= 1

====
